---- MODULE Spec2Model ----
(***************************************************************************)
(* Verification model of the simview playback core: BatchManager (batch     *)
(* layout), AnimationController (timeline clock and playback) and SimView   *)
(* (socket handlers, model load, frame scheduler).                          *)
(*                                                                          *)
(* Units.  Timeline time and the wall clock are integers counting 1/300 s,  *)
(* so that the default timestep 1/60 s is 5 and the scenario 0.1 s / 0.14 s *)
(* / 0.16 s is 30 / 42 / 48.  Lengths are integers counting half metres, so *)
(* that the batch spacing 0.5 m is 1 and a terrain of 10 m is 20.           *)
(* A JavaScript null / undefined is the empty sequence <<>> and a present   *)
(* value v is <<v>>; NaN is a reserved integer.                             *)
(***************************************************************************)
EXTENDS Integers, Sequences, FiniteSets, TLC

VARIABLES
    now,                 \* wall clock, the value performance.now() returns
    canReceiveStates,    \* SimView.canReceiveStates, the accept gate
    statesListener,      \* TRUE when statesHandler is registered for the "states" event
    loopRunning,         \* TRUE once initAndAnimate has started the frame scheduler
    currentModel,        \* history: id of the last model initFromModel completed for, 0 if none
    acceptedSinceModel,  \* history: states payloads passed to processStates since that model
    batchManager,        \* app.batchManager
    terrain,             \* app.terrain: Null or Some(terrain.dimensions)
    bodies,              \* app.bodies: Null or Some(the bodies built from a model)
    scalarPlotter,       \* app.scalarPlotter: Null or Some(plotter)
    bodyStateWindow,     \* app.bodyStateWindow: Null or Some(window)
    scene,               \* app.scene: the throttled renderer
    animationController, \* app.animationController: Null or Some(controller)
    retired,             \* the controller the last disposeOfAll disposed of, as dispose left it
    inflight,            \* "states" messages the server has emitted and the socket not yet delivered
    lastOp,              \* history: the last handler that ran, its argument and the error it raised
    layoutQuery,         \* the last row/col or offset query made on the batch manager and its result
    indexQuery,          \* the last getStateIndexForTime query and its result
    bodyRun,             \* a Body on its own and the last state slice given to its updateState
    terrainRun,          \* the terrain record last given to new Terrain and what came of it
    batchRun             \* the batch selection: manager, camera target, selector, plotter focus

appVars == <<now, canReceiveStates, statesListener, loopRunning, currentModel,
             acceptedSinceModel, batchManager, terrain, bodies, scalarPlotter,
             bodyStateWindow, scene, animationController, retired>>

vars == <<appVars, inflight, lastOp, layoutQuery, indexQuery, bodyRun, terrainRun, batchRun>>

Null == <<>>
Some(v) == <<v>>
Max(a, b) == IF a >= b THEN a ELSE b
Min(a, b) == IF a <= b THEN a ELSE b

(***************************************************************************)
(* BatchManager                                                             *)
(***************************************************************************)

\* bound: largest simBatches value a model payload carries
MaxBatches == 6

\* Math.ceil(Math.sqrt(n)) for an integer n >= 1
CeilSqrt(n) == CHOOSE s \in 1..n : s * s >= n /\ (s - 1) * (s - 1) < n

\* constructor: the fields before _initialize runs
BatchManagerFields ==
    [simBatches |-> 1, currentlyActiveBatch |-> 0, spacing |-> 1, batchOffsets |-> <<>>]

\* fault variant: row and column exchanged in the offsets
BatchManager_initialize_swapped(modelData) ==
    LET n == IF modelData.simBatches # Null THEN Max(1, modelData.simBatches[1])
             ELSE IF modelData.batchSize # Null THEN Max(1, modelData.batchSize[1])
             ELSE BatchManagerFields.simBatches
        sideLength == CeilSqrt(n)
        sizeX == modelData.terrain[1].sizeX
        sizeY == modelData.terrain[1].sizeY
        spacing == BatchManagerFields.spacing
    IN [BatchManagerFields EXCEPT
          !.simBatches = n,
          !.batchOffsets = [k \in 1..n |->
              [x |-> ((k - 1) \div sideLength) * (sizeX + spacing),
               y |-> ((k - 1) % sideLength) * (sizeY + spacing),
               z |-> 0]]]

\* _initialize: batch count from simBatches, else from batchSize, else the default 1;
\* one offset per batch, row-major on a square grid of side ceil(sqrt(simBatches))
BatchManager_initialize(modelData) ==
    LET n == IF modelData.simBatches # Null THEN Max(1, modelData.simBatches[1])
             ELSE IF modelData.batchSize # Null THEN Max(1, modelData.batchSize[1])
             ELSE BatchManagerFields.simBatches
        sideLength == CeilSqrt(n)
        sizeX == modelData.terrain[1].sizeX
        sizeY == modelData.terrain[1].sizeY
        spacing == BatchManagerFields.spacing
    IN [BatchManagerFields EXCEPT
          !.simBatches = n,
          !.batchOffsets = [k \in 1..n |->
              [x |-> ((k - 1) % sideLength) * (sizeX + spacing),
               y |-> ((k - 1) \div sideLength) * (sizeY + spacing),
               z |-> 0]]]

getRowColFromBatchIndex(bm, batchIndex) ==
    IF batchIndex < 0 \/ batchIndex >= bm.simBatches
    THEN [row |-> -1, col |-> -1]
    ELSE LET sideLength == CeilSqrt(bm.simBatches)
         IN [row |-> batchIndex \div sideLength, col |-> batchIndex % sideLength]

\* fault variant: the populated-cell check (index >= simBatches) is left out
getBatchIndexFromRowCol_noPopulatedCheck(bm, rowIdx, colIdx) ==
    LET sideLength == CeilSqrt(bm.simBatches)
        batchIndex == rowIdx * sideLength + colIdx
    IN IF rowIdx < 0 \/ colIdx < 0 \/ rowIdx >= sideLength \/ colIdx >= sideLength
       THEN -1
       ELSE batchIndex

getBatchIndexFromRowCol(bm, rowIdx, colIdx) ==
    LET sideLength == CeilSqrt(bm.simBatches)
        batchIndex == rowIdx * sideLength + colIdx
    IN IF rowIdx < 0 \/ colIdx < 0 \/ rowIdx >= sideLength \/ colIdx >= sideLength
       THEN -1
       ELSE IF batchIndex < 0 \/ batchIndex >= bm.simBatches
       THEN -1
       ELSE batchIndex

getBatchOffset(bm, batchIndex) ==
    IF batchIndex >= 0 /\ batchIndex < Len(bm.batchOffsets)
    THEN bm.batchOffsets[batchIndex + 1]
    ELSE [x |-> 0, y |-> 0, z |-> 0]

(***************************************************************************)
(* JavaScript numbers                                                       *)
(***************************************************************************)

\* the value of x % 0 and of every arithmetic on it
NaN == -1000000

\* Number.NEGATIVE_INFINITY as a lastRenderTime
NegInf == Null

\* JavaScript a % b for a >= 0
JsMod(a, b) ==
    IF a = NaN \/ b = NaN \/ b = 0 THEN NaN
    ELSE IF b > 0 THEN a % b ELSE a % (0 - b)

\* Math.round(t / ts): the nearest integer, halves rounded up
RoundDiv(t, ts) ==
    IF t = NaN \/ ts = NaN THEN NaN
    ELSE IF ts > 0 THEN (2 * t + ts) \div (2 * ts)
    ELSE (0 - 2 * t - ts) \div (0 - 2 * ts)

\* fault variant: the widget waits for half its delay only
Throttled_halfDelay(t, last, delay) == last # NegInf /\ 2 * (t - last[1]) < delay

\* now - last < delay, with last possibly Number.NEGATIVE_INFINITY
Throttled(t, last, delay) == last # NegInf /\ t - last[1] < delay

(***************************************************************************)
(* The application as one record, so that a handler is a function from the  *)
(* application before it to the application after it.  err is the error the *)
(* handler has thrown so far; a handler stops at its first error.           *)
(***************************************************************************)

World ==
    [now |-> now, canReceiveStates |-> canReceiveStates, statesListener |-> statesListener,
     loopRunning |-> loopRunning, currentModel |-> currentModel,
     acceptedSinceModel |-> acceptedSinceModel, batchManager |-> batchManager,
     terrain |-> terrain, bodies |-> bodies, scalarPlotter |-> scalarPlotter,
     bodyStateWindow |-> bodyStateWindow, scene |-> scene,
     animationController |-> animationController, retired |-> retired, err |-> "none"]

Commit(w) ==
    /\ now' = w.now
    /\ canReceiveStates' = w.canReceiveStates
    /\ statesListener' = w.statesListener
    /\ loopRunning' = w.loopRunning
    /\ currentModel' = w.currentModel
    /\ acceptedSinceModel' = w.acceptedSinceModel
    /\ batchManager' = w.batchManager
    /\ terrain' = w.terrain
    /\ bodies' = w.bodies
    /\ scalarPlotter' = w.scalarPlotter
    /\ bodyStateWindow' = w.bodyStateWindow
    /\ scene' = w.scene
    /\ animationController' = w.animationController
    /\ retired' = w.retired

Throw(w, e) == [w EXCEPT !.err = e]
Ok(w) == w.err = "none"

AC(w) == w.animationController[1]
SetAC(w, c) == [w EXCEPT !.animationController = Some(c)]

(***************************************************************************)
(* Throttled widgets: playback bar, body-state window, scalar plotter, scene *)
(***************************************************************************)

\* minRenderDelay = 1000 / FREQ_CONFIG.<widget> milliseconds, in 1/300 s
PlaybackControlsDelay == 15
BodyStateWindowDelay == 10
ScalarPlotterDelay == 15
SceneDelay == 5

\* PlaybackControls.updateElements: show the controller's current and total time
PlaybackControls_updateElements(w) ==
    LET c == AC(w)
    IN SetAC(w, [c EXCEPT !.playbackControls =
           Some([c.playbackControls[1] EXCEPT !.shownTime = c.currentTime,
                                              !.shownTotal = c.totalTime,
                                              !.lastRenderTime = NegInf])])

\* new PlaybackControls(controller): buttons labelled "Play" and "REC", then updateElements
PlaybackControls_new(w) ==
    LET c == AC(w)
    IN SetAC(w, [c EXCEPT !.playbackControls =
           Some([shownTime |-> c.currentTime, shownTotal |-> c.totalTime,
                 lastRenderTime |-> NegInf, playButton |-> "Play", recordButton |-> "REC"])])

PlaybackControls_forceRedraw(w) ==
    IF AC(w).playbackControls = Null THEN Throw(w, "TypeError")
    ELSE PlaybackControls_updateElements(w)

\* PlaybackControls.animate(now): updateElements resets lastRenderTime, then it is set to now
PlaybackControls_animate(w) ==
    IF AC(w).playbackControls = Null THEN Throw(w, "TypeError")
    ELSE IF Throttled(w.now, AC(w).playbackControls[1].lastRenderTime, PlaybackControlsDelay)
    THEN w
    ELSE LET w1 == PlaybackControls_updateElements(w)
             c == AC(w1)
         IN SetAC(w1, [c EXCEPT !.playbackControls =
                Some([c.playbackControls[1] EXCEPT !.lastRenderTime = Some(w.now)])])

\* BodyStateWindow.update: the detail rows show the bodies' stored state
BodyStateWindow_update(w) ==
    [w EXCEPT !.bodyStateWindow =
        Some([@[1] EXCEPT !.shown = IF w.bodies = Null THEN Null ELSE Some(w.bodies[1].state)])]

BodyStateWindow_new == [window |-> TRUE, lastRenderTime |-> NegInf, shown |-> Null]

BodyStateWindow_forceRedraw(w) ==
    IF w.bodyStateWindow = Null THEN Throw(w, "TypeError")
    ELSE BodyStateWindow_update(
            [w EXCEPT !.bodyStateWindow = Some([@[1] EXCEPT !.lastRenderTime = NegInf])])

BodyStateWindow_animate(w) ==
    LET b == w.bodyStateWindow[1]
    IN IF ~b.window THEN w
       ELSE IF Throttled(w.now, b.lastRenderTime, BodyStateWindowDelay) THEN w
       ELSE BodyStateWindow_update(
               [w EXCEPT !.bodyStateWindow = Some([b EXCEPT !.lastRenderTime = Some(w.now)])])

\* ScalarPlotter.setEndIndex(index): ignored outside the plotted times
ScalarPlotter_setEndIndex(w, index) ==
    LET p == w.scalarPlotter[1]
    IN IF index = NaN \/ index < 0 \/ index >= p.times THEN w
       ELSE [w EXCEPT !.scalarPlotter = Some([p EXCEPT !.currentEndIndex = index])]

ScalarPlotter_new(m) ==
    [model |-> m.id, disposed |-> FALSE, times |-> 0, currentEndIndex |-> 0,
     lastRenderTime |-> NegInf]

\* bound: the plotter's times array is followed up to this length
MaxTimes == 6

\* a snapshot carries, for each declared scalar, values for some number of batches
\* (scalars = Some(n)) or does not carry the scalar at all (scalars = Null)
LacksScalar(snap, batchSize) == snap.scalars = Null \/ snap.scalars[1] < batchSize

\* fault variant: a snapshot that lacks a scalar or a batch's value is passed over
ScalarPlotter_initFromStates_skipsMissing(w, payload) ==
    LET p == w.scalarPlotter[1]
        snaps == payload.snaps
        good == {i \in 1..Len(snaps) : ~LacksScalar(snaps[i], w.batchManager[1].simBatches)}
    IN [w EXCEPT !.scalarPlotter =
           Some([p EXCEPT !.times = Min(@ + Cardinality(good), MaxTimes)])]

\* ScalarPlotter.initFromStates: one more time per snapshot (the array is not
\* emptied first), an Error at the first snapshot that lacks a declared scalar or
\* its value for a batch below the batch manager's batch count
ScalarPlotter_initFromStates(w, payload) ==
    LET p == w.scalarPlotter[1]
        snaps == payload.snaps
        bad == {i \in 1..Len(snaps) : LacksScalar(snaps[i], w.batchManager[1].simBatches)}
        firstBad == IF bad = {} THEN Len(snaps) + 1 ELSE CHOOSE i \in bad : \A j \in bad : i <= j
        w1 == [w EXCEPT !.scalarPlotter = Some([p EXCEPT !.times = Min(@ + firstBad - 1, MaxTimes)])]
    IN IF bad = {} THEN w1 ELSE Throw(w1, "Error")

ScalarPlotter_animate(w) ==
    LET p == w.scalarPlotter[1]
    IN IF Throttled(w.now, p.lastRenderTime, ScalarPlotterDelay) THEN w
       ELSE [w EXCEPT !.scalarPlotter = Some([p EXCEPT !.lastRenderTime = Some(w.now)])]

\* the scene before its first render: the frame buffer shows nothing
Scene_new == [lastRenderTime |-> NegInf, frame |-> Null]

\* what renderer.render draws: the state the bodies hold
Drawn(w) == IF w.bodies = Null THEN Null ELSE Some(w.bodies[1].state)

\* Scene.animate(now): render into the frame buffer unless throttled
Scene_animate(w) ==
    IF Throttled(w.now, w.scene.lastRenderTime, SceneDelay) THEN w
    ELSE [w EXCEPT !.scene = [@ EXCEPT !.lastRenderTime = Some(w.now), !.frame = Drawn(w)]]

(***************************************************************************)
(* AnimationController                                                      *)
(***************************************************************************)

\* the fallback timestep 1/60 s
DefaultTimestep == 5

\* new AnimationController(app, model.dt)
AnimationController_new(simulationTimestep) ==
    [playbackControls |-> Null, states |-> Null, isPlaying |-> FALSE, playbackSpeed |-> 1,
     isRecording |-> FALSE, capturer |-> Null, startTime |-> Null, recordingFormat |-> "jpg",
     currentStateIndex |-> 0, totalTime |-> 0, currentTime |-> 0,
     simulationTimestep |-> simulationTimestep, lastUpdateTime |-> Null]

\* states.length and states[i] of a loaded controller
StatesLength(c) == Len(c.states[1].snaps)
StateAt(c, i) == c.states[1].snaps[i + 1]
ValidIndex(c, i) == c.states # Null /\ i # NaN /\ i >= 0 /\ i < StatesLength(c)

\* !x of a timestep: undefined, 0 and NaN are falsy
Falsy(x) == x = Null \/ x[1] = 0 \/ x[1] = NaN

\* fault variant: truncation instead of rounding
getStateIndexForTime_floor(c, targetTime) ==
    LET q == IF targetTime = NaN THEN NaN ELSE targetTime \div c.simulationTimestep[1]
    IN IF q = NaN THEN NaN
       ELSE IF q < 0 THEN 0
       ELSE IF q >= StatesLength(c) THEN StatesLength(c) - 1
       ELSE q

\* fault variant: the upper clamp is left out
getStateIndexForTime_noClamp(c, targetTime) ==
    LET q == RoundDiv(targetTime, c.simulationTimestep[1])
    IN IF q = NaN THEN NaN
       ELSE IF q < 0 THEN 0
       ELSE q

\* getStateIndexForTime of a controller with states: round, then clamp
getStateIndexForTime(c, targetTime) ==
    LET q == RoundDiv(targetTime, c.simulationTimestep[1])
    IN IF q = NaN THEN NaN
       ELSE IF q < 0 THEN 0
       ELSE IF q >= StatesLength(c) THEN StatesLength(c) - 1
       ELSE q

\* bound: updateState calls on a body are counted modulo MaxUpdates + 1
MaxUpdates == 2

\* Body.updateState as the scene sees it: the body shows the record of snapshot i of
\* the payload, and one more call is counted
Body_updateState(bs, n, payloadId, i) ==
    [bs EXCEPT !.state[n] = <<payloadId, i>>,
               !.updates[n] = (@ + 1) % (MaxUpdates + 1)]

\* the bodies after updateState for every name of names that the model has
RECURSIVE PushAll(_, _, _, _)
PushAll(bs, names, payloadId, i) ==
    IF names = {} THEN bs
    ELSE LET n == CHOOSE x \in names : TRUE
             rest == PushAll(bs, names \ {n}, payloadId, i)
         IN IF n \in DOMAIN bs.state THEN Body_updateState(rest, n, payloadId, i) ELSE rest

\* fault variant: a record that names no body of the model is an error
updateScene_throwOnUnmatched(w) ==
    LET c == AC(w)
        i == c.currentStateIndex
    IN IF w.bodies = Null \/ ~ValidIndex(c, i) THEN w
       ELSE LET state == StateAt(c, i)
                w1 == [w EXCEPT !.bodies =
                          Some(PushAll(@[1], state.bodies, c.states[1].id, i))]
            IN IF ~(state.bodies \subseteq DOMAIN w.bodies[1].state) THEN Throw(w, "TypeError")
               ELSE IF w1.scalarPlotter # Null THEN ScalarPlotter_setEndIndex(w1, i) ELSE w1

\* updateScene: push states[currentStateIndex] into the bodies it names, then
\* move the plotter's end index
updateScene(w) ==
    LET c == AC(w)
        i == c.currentStateIndex
    IN IF w.bodies = Null \/ ~ValidIndex(c, i) THEN w
       ELSE LET state == StateAt(c, i)
                w1 == [w EXCEPT !.bodies =
                          Some(PushAll(@[1], state.bodies, c.states[1].id, i))]
            IN IF w1.scalarPlotter # Null THEN ScalarPlotter_setEndIndex(w1, i) ELSE w1

\* fault variant: the snapshot is not pushed into the scene
seekToIndex_noUpdateScene(w, index) ==
    LET c == [AC(w) EXCEPT !.currentStateIndex = index]
    IN IF ~ValidIndex(c, index) THEN Throw(SetAC(w, c), "TypeError")
       ELSE SetAC(w, [c EXCEPT !.currentTime = StateAt(c, index).time])

\* seekToIndex: states[index].time raises a TypeError when states[index] is undefined
seekToIndex(w, index) ==
    LET c == [AC(w) EXCEPT !.currentStateIndex = index]
    IN IF ~ValidIndex(c, index) THEN Throw(SetAC(w, c), "TypeError")
       ELSE updateScene(SetAC(w, [c EXCEPT !.currentTime = StateAt(c, index).time]))

\* forceRedrawStaticElements; skipped when the caller has already thrown
forceRedrawStaticElements(w) ==
    LET w1 == PlaybackControls_forceRedraw(w)
    IN IF ~Ok(w) THEN w
       ELSE IF ~Ok(w1) THEN w1
       ELSE BodyStateWindow_forceRedraw(w1)

\* fault variant: the elapsed-time reference is not restarted
play_keepReference(w) ==
    LET c == AC(w)
    IN IF ~c.isPlaying THEN SetAC(w, [c EXCEPT !.isPlaying = TRUE]) ELSE w

play(w) ==
    LET c == AC(w)
    IN IF ~c.isPlaying
       THEN SetAC(w, [c EXCEPT !.isPlaying = TRUE, !.lastUpdateTime = Some(w.now)])
       ELSE w

pause(w) == SetAC(w, [AC(w) EXCEPT !.isPlaying = FALSE])

setSpeed(w, speed) == SetAC(w, [AC(w) EXCEPT !.playbackSpeed = speed])

setRecordingFormat(w, format) == SetAC(w, [AC(w) EXCEPT !.recordingFormat = format])

\* fault variant: the step is taken while playing too
stepForward_whilePlaying(w) ==
    LET c == AC(w)
    IN IF c.states = Null THEN Throw(w, "TypeError")
       ELSE IF c.currentStateIndex = NaN THEN seekToIndex(w, NaN)
       ELSE forceRedrawStaticElements(
                 seekToIndex(w, (c.currentStateIndex + 1) % StatesLength(c)))

stepForward(w) ==
    LET c == AC(w)
    IN IF c.isPlaying THEN w
       ELSE IF c.states = Null THEN Throw(w, "TypeError")
       ELSE IF c.currentStateIndex = NaN THEN seekToIndex(w, NaN)
       ELSE forceRedrawStaticElements(
                 seekToIndex(w, (c.currentStateIndex + 1) % StatesLength(c)))

\* fault variant: the index is not wrapped below 0
stepBackward_noWrap(w) ==
    LET c == AC(w)
    IN IF c.isPlaying THEN w
       ELSE IF c.states = Null THEN Throw(w, "TypeError")
       ELSE IF c.currentStateIndex = NaN THEN seekToIndex(w, NaN)
       ELSE forceRedrawStaticElements(seekToIndex(w, c.currentStateIndex - 1))

stepBackward(w) ==
    LET c == AC(w)
    IN IF c.isPlaying THEN w
       ELSE IF c.states = Null THEN Throw(w, "TypeError")
       ELSE IF c.currentStateIndex = NaN THEN seekToIndex(w, NaN)
       ELSE forceRedrawStaticElements(
                 seekToIndex(w, (c.currentStateIndex - 1 + StatesLength(c)) % StatesLength(c)))

\* fault variant: an out-of-range time is clamped into the timeline instead of ignored
goToTime_clamping(w, time) ==
    LET c == AC(w)
        w1 == seekToIndex(w, getStateIndexForTime(c, time))
    IN IF c.states = Null THEN Throw(w, "TypeError")
       ELSE IF ~c.isPlaying THEN forceRedrawStaticElements(w1) ELSE w1

goToTime(w, time) ==
    LET c == AC(w)
        w1 == seekToIndex(w, getStateIndexForTime(c, time))
    IN IF time < 0 \/ time > c.totalTime THEN w
       ELSE IF c.states = Null THEN Throw(w, "TypeError")
       ELSE IF ~c.isPlaying THEN forceRedrawStaticElements(w1) ELSE w1

\* PlaybackControls.progressBarContainerClick at the position of targetTime on the
\* bar: with Alt held the controller is paused and the play button relabelled; the
\* controller then goes to the time
progressBarContainerClick(w, targetTime, altKey) ==
    LET w1 == IF altKey
              THEN LET wp == pause(w)
                       c == AC(wp)
                   IN SetAC(wp, [c EXCEPT !.playbackControls =
                          Some([c.playbackControls[1] EXCEPT !.playButton = "Play"])])
              ELSE w
    IN goToTime(w1, targetTime)

\* fault variant: the timeline is kept and the bar built, but nothing seeks to 0
loadAnimation_noSeek(w, payload) ==
    LET c == [AC(w) EXCEPT !.states = Some(payload)]
        n == Len(payload.snaps)
        dt == payload.snaps[2].time - payload.snaps[1].time
        ts == IF Falsy(c.simulationTimestep) /\ n > 1
              THEN (IF dt > 0 THEN Some(dt) ELSE Some(DefaultTimestep))
              ELSE IF Falsy(c.simulationTimestep) THEN Some(DefaultTimestep)
              ELSE c.simulationTimestep
        c1 == [c EXCEPT !.totalTime = payload.snaps[n].time, !.simulationTimestep = ts]
    IN IF n = 0 THEN Throw(SetAC(w, c), "TypeError")
       ELSE PlaybackControls_new(SetAC(w, c1))

\* the play button's label
setPlayButton(w, label) ==
    LET c == AC(w)
    IN IF ~Ok(w) THEN w
       ELSE SetAC(w, [c EXCEPT !.playbackControls =
                         Some([c.playbackControls[1] EXCEPT !.playButton = label])])

\* PlaybackControls.playButtonClick: toggle playback and relabel the button
playButtonClick(w) ==
    IF AC(w).isPlaying THEN setPlayButton(pause(w), "Play")
    ELSE setPlayButton(play(w), "Pause")

\* PlaybackControls.stepBackButtonClick / stepForwardButtonClick: pause, step, relabel
stepBackButtonClick(w) == setPlayButton(stepBackward(pause(w)), "Play")
stepForwardButtonClick(w) == setPlayButton(stepForward(pause(w)), "Play")

\* loadAnimation: keep the states, infer the timestep, build the playback bar, seek to 0
loadAnimation(w, payload) ==
    LET c == [AC(w) EXCEPT !.states = Some(payload)]
        n == Len(payload.snaps)
        dt == payload.snaps[2].time - payload.snaps[1].time
        ts == IF Falsy(c.simulationTimestep) /\ n > 1
              THEN (IF dt > 0 THEN Some(dt) ELSE Some(DefaultTimestep))
              ELSE IF Falsy(c.simulationTimestep) THEN Some(DefaultTimestep)
              ELSE c.simulationTimestep
        c1 == [c EXCEPT !.totalTime = payload.snaps[n].time, !.simulationTimestep = ts]
    IN IF n = 0 THEN Throw(SetAC(w, c), "TypeError")
       ELSE goToTime(PlaybackControls_new(SetAC(w, c1)), 0)

\* fault variant: a default case that returns the options for every format
SupportedFormat_any(format) == format = format

\* getRecordingOptionsForFormat accepts jpg and png only
SupportedFormat(format) == format \in {"jpg", "png"}

\* fault variant: the recording starts at the index it finds
startRecording_noSeek(w) ==
    LET c == AC(w)
        w2 == SetAC(w, [c EXCEPT !.capturer = Some([running |-> TRUE, frames |-> FALSE, captured |-> Null]),
                                 !.isRecording = TRUE, !.startTime = Some(w.now)])
    IN IF c.isRecording THEN w
       ELSE IF ~SupportedFormat(c.recordingFormat) THEN Throw(w, "Error")
       ELSE IF ~c.isPlaying THEN play(w2) ELSE w2

startRecording(w) ==
    LET w1 == seekToIndex(w, 0)
        c == AC(w1)
        w2 == SetAC(w1, [c EXCEPT !.capturer = Some([running |-> TRUE, frames |-> FALSE, captured |-> Null]),
                                  !.isRecording = TRUE, !.startTime = Some(w.now)])
    IN IF AC(w).isRecording THEN w
       ELSE IF ~Ok(w1) THEN w1
       ELSE IF ~SupportedFormat(c.recordingFormat) THEN Throw(w1, "Error")
       ELSE IF ~c.isPlaying THEN play(w2) ELSE w2

\* fault variant: stopping the recording pauses playback
stopRecording_pausing(w) ==
    LET c == AC(w)
    IN IF ~c.isRecording THEN w
       ELSE SetAC(w, [c EXCEPT !.isRecording = FALSE, !.startTime = Null, !.isPlaying = FALSE,
                               !.capturer = Some([@[1] EXCEPT !.running = FALSE])])

stopRecording(w) ==
    LET c == AC(w)
    IN IF ~c.isRecording THEN w
       ELSE SetAC(w, [c EXCEPT !.isRecording = FALSE, !.startTime = Null,
                               !.capturer = Some([@[1] EXCEPT !.running = FALSE])])

\* PlaybackControls.recordButtonClick: toggle the recording and relabel the button
recordButtonClick(w) ==
    LET w1 == IF AC(w).isRecording THEN stopRecording(w) ELSE startRecording(w)
        label == IF AC(w).isRecording THEN "REC" ELSE "STOP"
        c == AC(w1)
    IN IF ~Ok(w1) THEN w1
       ELSE SetAC(w1, [c EXCEPT !.playbackControls = Some([@[1] EXCEPT !.recordButton = label])])

\* PlaybackControls.keydownListener: Alt with an arrow steps; without a modifier r
\* clicks the record button and the space bar the play button
keydownListener(w, key, altKey) ==
    IF altKey /\ key = "ArrowRight" THEN stepForward(w)
    ELSE IF altKey /\ key = "ArrowLeft" THEN stepBackward(w)
    ELSE IF altKey THEN w
    ELSE IF key = "r" THEN recordButtonClick(w)
    ELSE IF key = " " THEN playButtonClick(w)
    ELSE w

\* the recording part of animate: capture the renderer's frame buffer, stop after
\* one loop
animateRecording(w) ==
    IF ~Ok(w) THEN w ELSE
    LET c == AC(w)
        elapsed == IF c.startTime = Null THEN w.now ELSE w.now - c.startTime[1]
        duration == c.totalTime
        w1 == SetAC(w, [c EXCEPT !.capturer = Some([@[1] EXCEPT !.frames = TRUE,
                                                              !.captured = w.scene.frame])])
    IN IF ~(c.isRecording /\ c.capturer # Null) THEN w
       ELSE IF elapsed >= duration
            THEN (IF c.playbackControls = Null THEN Throw(w1, "TypeError")
                  ELSE recordButtonClick(w1))
       ELSE w1

\* the widget updates animate makes after an index change
animateWidgets(w) ==
    LET w1 == PlaybackControls_animate(w)
    IN IF ~Ok(w) THEN w
       ELSE IF ~Ok(w1) THEN w1
       ELSE IF w1.bodyStateWindow # Null THEN BodyStateWindow_animate(w1) ELSE w1

\* fault variant: the clock stops at the end of the timeline instead of wrapping
animate_stopAtEnd(w) ==
    LET c == AC(w)
        last == IF c.lastUpdateTime = Null THEN w.now ELSE c.lastUpdateTime[1]
        dt == w.now - last
        advanced == IF c.currentTime = NaN THEN NaN ELSE c.currentTime + dt * c.playbackSpeed
        stopped == advanced # NaN /\ advanced > c.totalTime
        wrapped == IF stopped THEN c.totalTime ELSE advanced
        c1 == [c EXCEPT !.lastUpdateTime = Some(w.now), !.currentTime = wrapped,
                        !.isPlaying = ~stopped]
        newStateIndex == getStateIndexForTime(c1, wrapped)
        w1 == SetAC(w, c1)
        w2 == IF newStateIndex = NaN \/ newStateIndex # c.currentStateIndex
              THEN animateWidgets(seekToIndex(w1, newStateIndex))
              ELSE w1
    IN IF ~c.isPlaying \/ c.states = Null THEN w
       ELSE animateRecording(w2)

\* animate(now): advance and wrap the clock, seek when the index changed, record
animate(w) ==
    LET c == AC(w)
        last == IF c.lastUpdateTime = Null THEN w.now ELSE c.lastUpdateTime[1]
        dt == w.now - last
        advanced == IF c.currentTime = NaN THEN NaN ELSE c.currentTime + dt * c.playbackSpeed
        wrapped == JsMod(advanced, c.totalTime)
        c1 == [c EXCEPT !.lastUpdateTime = Some(w.now), !.currentTime = wrapped]
        newStateIndex == getStateIndexForTime(c1, wrapped)
        w1 == SetAC(w, c1)
        w2 == IF newStateIndex = NaN \/ newStateIndex # c.currentStateIndex
              THEN animateWidgets(seekToIndex(w1, newStateIndex))
              ELSE w1
    IN IF ~c.isPlaying \/ c.states = Null THEN w
       ELSE animateRecording(w2)

\* AnimationController.dispose: remove the playback bar, stop the capturer
AnimationController_dispose(c) ==
    [c EXCEPT !.playbackControls = Null, !.capturer = Null]

(***************************************************************************)
(* SimView                                                                  *)
(***************************************************************************)

\* fault variant: the controller, and with it the playback bar, is not disposed of
disposeOfAll_keepsPlaybackBar(w) ==
    [w EXCEPT
       !.bodies = IF @ = Null THEN Null ELSE Some([@[1] EXCEPT !.disposed = TRUE]),
       !.retired = w.animationController,
       !.scalarPlotter = IF @ = Null THEN Null ELSE Some([@[1] EXCEPT !.disposed = TRUE]),
       !.bodyStateWindow = IF @ = Null THEN Null ELSE Some([@[1] EXCEPT !.window = FALSE])]

\* disposeOfAll: dispose what the previous model built; no reference is cleared
disposeOfAll(w) ==
    [w EXCEPT
       !.bodies = IF @ = Null THEN Null ELSE Some([@[1] EXCEPT !.disposed = TRUE]),
       !.animationController = IF @ = Null THEN Null ELSE Some(AnimationController_dispose(@[1])),
       !.retired = IF w.animationController = Null THEN Null
                   ELSE Some(AnimationController_dispose(w.animationController[1])),
       !.scalarPlotter = IF @ = Null THEN Null ELSE Some([@[1] EXCEPT !.disposed = TRUE]),
       !.bodyStateWindow = IF @ = Null THEN Null ELSE Some([@[1] EXCEPT !.window = FALSE])]

\* fault variant: the missing terrain is noticed only after the bodies are built
initFromModel_terrainCheckLate(w, model) ==
    LET w1 == disposeOfAll(w)
        built == Some([model |-> model.id, disposed |-> FALSE,
                       state |-> [n \in model.bodies |-> <<0, 0>>],
                       updates |-> [n \in model.bodies |-> 0]])
    IN IF model.terrain = Null THEN Throw([w1 EXCEPT !.bodies = built], "Error")
       ELSE [w1 EXCEPT
               !.batchManager = Some(BatchManager_initialize(model)),
               !.bodies = built,
               !.terrain = model.terrain,
               !.scalarPlotter = IF model.scalarNames THEN Some(ScalarPlotter_new(model)) ELSE @,
               !.bodyStateWindow = Some(BodyStateWindow_new),
               !.animationController = Some(AnimationController_new(model.dt))]

\* initFromModel: dispose, then build batch manager, bodies, terrain, plotter (only
\* when the model names scalars), body-state window and a fresh controller.
\* new BatchManager reads model.terrain.dimensions: a TypeError without terrain.
initFromModel(w, model) ==
    LET w1 == disposeOfAll(w)
    IN IF model.terrain = Null THEN Throw(w1, "TypeError")
       ELSE [w1 EXCEPT
               !.batchManager = Some(BatchManager_initialize(model)),
               !.bodies = Some([model |-> model.id, disposed |-> FALSE,
                                state |-> [n \in model.bodies |-> <<0, 0>>],
                                updates |-> [n \in model.bodies |-> 0]]),
               !.terrain = model.terrain,
               !.scalarPlotter = IF model.scalarNames THEN Some(ScalarPlotter_new(model)) ELSE @,
               !.bodyStateWindow = Some(BodyStateWindow_new),
               !.animationController = Some(AnimationController_new(model.dt))]

\* processStates: load the timeline, then hand it to the plotter
processStates(w, statesData) ==
    LET w1 == loadAnimation(w, statesData)
    IN IF ~Ok(w1) THEN w1
       ELSE IF w1.scalarPlotter = Null THEN Throw(w1, "TypeError")
       ELSE ScalarPlotter_initFromStates(w1, statesData)

\* fault variant: the gate is not closed when a payload is accepted
statesHandler_gateLeftOpen(w, statesData) ==
    IF w.canReceiveStates
    THEN processStates([w EXCEPT !.acceptedSinceModel = Min(@ + 1, 2)], statesData)
    ELSE w

\* statesHandler: accept one payload, then close the gate
statesHandler(w, statesData) ==
    IF w.canReceiveStates
    THEN processStates([w EXCEPT !.canReceiveStates = FALSE,
                                 !.acceptedSinceModel = Min(@ + 1, 2)], statesData)
    ELSE w

\* the "model" listener: initFromModel, open the gate, (re)register statesHandler,
\* emit get_states, resolve the promise initAndAnimate waits on
modelHandler(w, model) ==
    LET w1 == initFromModel(w, model)
    IN IF ~Ok(w1) THEN w1
       ELSE [w1 EXCEPT !.canReceiveStates = TRUE, !.statesListener = TRUE,
                       !.loopRunning = TRUE, !.currentModel = model.id,
                       !.acceptedSinceModel = 0]

\* fault variant: every frame redraws the playback bar and the body-state window
SimView_animate_redrawEachFrame(w) ==
    LET w1 == forceRedrawStaticElements(animate(w))
        w2 == IF w1.scalarPlotter # Null THEN ScalarPlotter_animate(w1) ELSE w1
    IN IF ~Ok(w1) THEN w1 ELSE Scene_animate(w2)

\* SimView.animate: controller, plotter (when there is one), scene, in this order
SimView_animate(w) ==
    LET w1 == animate(w)
        w2 == IF w1.scalarPlotter # Null THEN ScalarPlotter_animate(w1) ELSE w1
    IN IF ~Ok(w1) THEN w1 ELSE Scene_animate(w2)

(***************************************************************************)
(* State after new SimView(), new Scene(app) and initializeSocket()          *)
(***************************************************************************)

InitWorld ==
    [now |-> 0, canReceiveStates |-> TRUE, statesListener |-> FALSE, loopRunning |-> FALSE,
     currentModel |-> 0, acceptedSinceModel |-> 0, batchManager |-> Null, terrain |-> Null,
     bodies |-> Null, scalarPlotter |-> Null, bodyStateWindow |-> Null, scene |-> Scene_new,
     animationController |-> Null, retired |-> Null, err |-> "none"]

\* the application is in state w
StartsAs(w) ==
    /\ now = w.now
    /\ canReceiveStates = w.canReceiveStates
    /\ statesListener = w.statesListener
    /\ loopRunning = w.loopRunning
    /\ currentModel = w.currentModel
    /\ acceptedSinceModel = w.acceptedSinceModel
    /\ batchManager = w.batchManager
    /\ terrain = w.terrain
    /\ bodies = w.bodies
    /\ scalarPlotter = w.scalarPlotter
    /\ bodyStateWindow = w.bodyStateWindow
    /\ scene = w.scene
    /\ animationController = w.animationController
    /\ retired = w.retired

\* lastOp: the handler, its argument, for a "states" message the model whose get_states
\* it answers (0: none), the error raised, and what an animate tick did
NoOp == [name |-> "none", arg |-> 0, req |-> 0, err |-> "none", note |-> "none"]
Op(name, arg, w) == [NoOp EXCEPT !.name = name, !.arg = arg, !.err = w.err]

NoLayoutQuery == [kind |-> "none", row |-> 0, col |-> 0, index |-> 0,
                  rowcol |-> [row |-> 0, col |-> 0], offset |-> [x |-> 0, y |-> 0, z |-> 0]]

NoIndexQuery == [kind |-> "none", time |-> 0, index |-> 0]

\* bodyRun: the model record the body was built from, the slice it was given before,
\* the body, and the slice updateState was last called with
NoBodyRun == [data |-> Null, earlier |-> Null, body |-> Null, slice |-> Null]

\* terrainRun: the terrain record, the batch count and the terrain built or the error
NoTerrainRun == [data |-> Null, batchSize |-> Null, result |-> Null]

\* batchRun: the batch manager, the camera target, the body-state window's batch
\* selector, the plotter's focused batch, and the last selection call with its error
NoBatchRun ==
    [batchManager |-> Null, target |-> Null, batchSelector |-> Null,
     currentFocusedBatch |-> Null, call |-> Null, err |-> "none"]

(***************************************************************************)
(* Batch layout: models with every batch count and extent, and the queries  *)
(***************************************************************************)

\* terrain extents (half metres) of the model payloads of the layout runs:
\* 10 m, 0.5 m, 0 m and -0.5 m
LayoutSizes == {20, 1, 0, -1}

LayoutModels ==
    [id : {1},
     simBatches : {Null} \cup {Some(n) : n \in 0..MaxBatches},
     batchSize  : {Null, Some(3)},
     terrain    : {Some([sizeX |-> sx, sizeY |-> sy]) : sx \in LayoutSizes, sy \in {20, 1}},
     bodies : {{"a"}}, dt : {Null}, scalarNames : {TRUE}]

\* the states payloads the server holds for a model
PayloadsFor(m, payloads) == {p \in payloads : p.forModel = m.id}

\* a "model" payload arrives: the whole model listener.  Its get_states is answered
\* with a states payload of that model, delivered at any later time.
ModelArrivesFrom(m, payloads) ==
    LET w == modelHandler(World, m)
    IN /\ Commit(w)
       /\ lastOp' = Op("model", m.id, w)
       /\ IF Ok(w) /\ PayloadsFor(m, payloads) # {}
          THEN \E p \in PayloadsFor(m, payloads) :
                  inflight' = inflight \cup {[payload |-> p.id, req |-> m.id]}
          ELSE inflight' = inflight
       /\ layoutQuery' = NoLayoutQuery
       /\ indexQuery' = NoIndexQuery
       /\ bodyRun' = bodyRun
       /\ terrainRun' = terrainRun
       /\ batchRun' = batchRun

\* getBatchIndexFromRowCol(r, c) followed by getRowColFromBatchIndex on its result
QueryRowCol(r, c) ==
    /\ batchManager # Null
    /\ layoutQuery' = [NoLayoutQuery EXCEPT
          !.kind = "rowcol", !.row = r, !.col = c,
          !.index = getBatchIndexFromRowCol(batchManager[1], r, c),
          !.rowcol = getRowColFromBatchIndex(batchManager[1],
                         getBatchIndexFromRowCol(batchManager[1], r, c))]
    /\ UNCHANGED <<appVars, inflight, lastOp, indexQuery, bodyRun, terrainRun, batchRun>>

\* getBatchOffset(i)
QueryOffset(i) ==
    /\ batchManager # Null
    /\ layoutQuery' = [NoLayoutQuery EXCEPT
          !.kind = "offset", !.index = i,
          !.offset = getBatchOffset(batchManager[1], i)]
    /\ UNCHANGED <<appVars, inflight, lastOp, indexQuery, bodyRun, terrainRun, batchRun>>

InitLayout ==
    /\ \E m \in LayoutModels : StartsAs(modelHandler(InitWorld, m))
    /\ inflight = {}
    /\ lastOp = NoOp
    /\ layoutQuery = NoLayoutQuery
    /\ indexQuery = NoIndexQuery
    /\ bodyRun = NoBodyRun
    /\ terrainRun = NoTerrainRun
    /\ batchRun = NoBatchRun

NextLayout ==
    \/ \E m \in LayoutModels : ModelArrivesFrom(m, {})
    \/ \E r \in -1..(CeilSqrt(MaxBatches) + 1), c \in -1..(CeilSqrt(MaxBatches) + 1) :
          QueryRowCol(r, c)
    \/ \E i \in -1..(MaxBatches + 1) : QueryOffset(i)

SpecLayout == InitLayout /\ [][NextLayout]_vars

(***************************************************************************)
(* Index queries: timelines of every shape, and getStateIndexForTime on them *)
(***************************************************************************)

\* bound: longest timeline of the index runs
MaxLen == 4

Snapshot(t) == [time |-> t, bodies |-> {"a"}, scalars |-> Some(1)]
Timeline(times) == [id |-> 1, forModel |-> 1, snaps |-> [i \in DOMAIN times |-> Snapshot(times[i])]]

\* snapshot i at i * step
RegularTimes(step, n) == [i \in 1..n |-> (i - 1) * step]

IndexTimelines ==
    {Timeline(RegularTimes(step, n)) : step \in {1, 4, 30}, n \in 1..MaxLen}
      \cup {Timeline(<<0, 10, 15>>), Timeline(<<0, 0, 0>>), Timeline(<<5, 35, 65>>)}

\* model.dt: absent, zero, the scenario's 0.1 s, a value unrelated to the data, negative
IndexTimesteps == {Null, Some(0), Some(30), Some(7), Some(-30)}

IndexModel(dt) ==
    [id |-> 1, simBatches |-> Some(1), batchSize |-> Null,
     terrain |-> Some([sizeX |-> 20, sizeY |-> 20]),
     bodies |-> {"a"}, dt |-> dt, scalarNames |-> TRUE]

\* getStateIndexForTime(t) on the loaded controller
QueryIndex(t) ==
    /\ animationController # Null
    /\ animationController[1].states # Null
    /\ indexQuery' = [kind |-> "query", time |-> t,
                      index |-> getStateIndexForTime(animationController[1], t)]
    /\ lastOp' = Op("getStateIndexForTime", t, World)
    /\ UNCHANGED <<appVars, inflight, layoutQuery, bodyRun, terrainRun, batchRun>>

InitIndex ==
    /\ \E dt \in IndexTimesteps, p \in IndexTimelines :
          StartsAs(statesHandler(modelHandler(InitWorld, IndexModel(dt)), p))
    /\ inflight = {}
    /\ lastOp = NoOp
    /\ layoutQuery = NoLayoutQuery
    /\ indexQuery = NoIndexQuery
    /\ bodyRun = NoBodyRun
    /\ terrainRun = NoTerrainRun
    /\ batchRun = NoBatchRun

NextIndex ==
    \E t \in -5..(30 * (MaxLen - 1) + 5) : QueryIndex(t)

SpecIndex == InitIndex /\ [][NextIndex]_vars

(***************************************************************************)
(* Socket traffic: model payloads, the states payloads that answer them,    *)
(* and the frame scheduler                                                  *)
(***************************************************************************)

\* bound: the wall clock stops advancing here
MaxNow == 6

\* wall-clock time between two frames
TickDeltas == {2, 3}

\* a states payload: snapshots at the given times, each naming the given bodies and
\* carrying the scalars for two batches
Payload(id, forModel, times, names) ==
    [id |-> id, forModel |-> forModel,
     snaps |-> [i \in DOMAIN times |->
                  [time |-> times[i], bodies |-> names, scalars |-> Some(2)]]]

\* timelines of model 1 (three snapshots, one of a body the model lacks; a single
\* snapshot) and of model 2
PayloadA == Payload(1, 1, <<0, 4, 8>>, {"a", "z"})
PayloadB == Payload(2, 2, <<0, 6>>, {"a", "c"})
PayloadSingle == Payload(3, 1, <<0>>, {"a"})
Payloads == {PayloadA, PayloadB, PayloadSingle}
PayloadOf(id) == CHOOSE p \in Payloads : p.id = id

\* model payloads: two batches with scalars; one batch without scalars; no terrain
ModelA ==
    [id |-> 1, simBatches |-> Some(2), batchSize |-> Null,
     terrain |-> Some([sizeX |-> 20, sizeY |-> 20]),
     bodies |-> {"a", "b"}, dt |-> Null, scalarNames |-> TRUE]
ModelB ==
    [id |-> 2, simBatches |-> Some(1), batchSize |-> Null,
     terrain |-> Some([sizeX |-> 20, sizeY |-> 1]),
     bodies |-> {"a", "c"}, dt |-> Null, scalarNames |-> FALSE]
ModelBad ==
    [id |-> 3, simBatches |-> Some(1), batchSize |-> Null, terrain |-> Null,
     bodies |-> {"a"}, dt |-> Null, scalarNames |-> TRUE]
Models == {ModelA, ModelB, ModelBad}

ModelArrives(m) == ModelArrivesFrom(m, Payloads)

\* a "states" message: the payload and the model whose get_states it answers (0: none)
Messages == [payload : {p.id : p \in Payloads}, req : {0} \cup {m.id : m \in Models}]

\* the server emits a states payload nobody asked for
ServerPush(p) ==
    /\ [payload |-> p.id, req |-> 0] \notin inflight
    /\ inflight' = inflight \cup {[payload |-> p.id, req |-> 0]}
    /\ lastOp' = Op("push", p.id, World)
    /\ UNCHANGED <<appVars, layoutQuery, indexQuery, bodyRun, terrainRun, batchRun>>

\* the socket delivers a "states" message: statesHandler runs when it is registered
StatesArrive(msg) ==
    LET w == IF statesListener THEN statesHandler(World, PayloadOf(msg.payload)) ELSE World
    IN /\ msg \in inflight
       /\ Commit(w)
       /\ inflight' = inflight \ {msg}
       /\ lastOp' = [Op("states", msg.payload, w) EXCEPT !.req = msg.req]
       /\ UNCHANGED <<layoutQuery, indexQuery, bodyRun, terrainRun, batchRun>>

\* the clock value animate would reach before wrapping, at wall-clock time t
Advanced(c, t) ==
    IF c.currentTime = NaN THEN NaN
    ELSE c.currentTime
           + (t - (IF c.lastUpdateTime = Null THEN t ELSE c.lastUpdateTime[1])) * c.playbackSpeed

\* what the frame at wall-clock time t does to the controller c
TickNote(c, t) ==
    IF ~c.isPlaying \/ c.states = Null THEN "idle"
    ELSE IF c.totalTime > 0 /\ Advanced(c, t) # NaN /\ Advanced(c, t) > c.totalTime
         THEN "wrapped"
    ELSE "advanced"

\* one frame of the scheduler, d after the previous one: SimView.animate(now)
Tick(d) ==
    LET w == SimView_animate([World EXCEPT !.now = now + d])
    IN /\ loopRunning
       /\ now + d <= MaxNow
       /\ Commit(w)
       /\ lastOp' = [Op("tick", d, w) EXCEPT !.note =
             IF animationController[1].isRecording /\ ~AC(w).isRecording THEN "autostop"
             ELSE TickNote(animationController[1], now + d)]
       /\ UNCHANGED <<inflight, layoutQuery, indexQuery, bodyRun, terrainRun, batchRun>>

\* a call of the controller's API made by the playback bar or the keyboard
Call(name, arg, w) ==
    /\ animationController # Null
    /\ Commit(w)
    /\ lastOp' = Op(name, arg, w)
    /\ UNCHANGED <<inflight, layoutQuery, indexQuery, bodyRun, terrainRun, batchRun>>

\* what play() finds: already playing, paused since an earlier frame, or just paused
PlayNote(c, t) ==
    IF c.isPlaying THEN "already"
    ELSE IF c.lastUpdateTime # Null /\ c.lastUpdateTime[1] < t THEN "resumed"
    ELSE "started"

Play ==
    /\ animationController # Null
    /\ Commit(play(World))
    /\ lastOp' = [Op("play", 0, play(World)) EXCEPT !.note = PlayNote(animationController[1], now)]
    /\ UNCHANGED <<inflight, layoutQuery, indexQuery, bodyRun, terrainRun, batchRun>>
Pause == animationController # Null /\ Call("pause", 0, pause(World))

Init ==
    /\ StartsAs(InitWorld)
    /\ inflight = {}
    /\ lastOp = NoOp
    /\ layoutQuery = NoLayoutQuery
    /\ indexQuery = NoIndexQuery
    /\ bodyRun = NoBodyRun
    /\ terrainRun = NoTerrainRun
    /\ batchRun = NoBatchRun

Next ==
    \/ \E m \in Models : ModelArrives(m)
    \/ \E p \in Payloads : ServerPush(p)
    \/ \E msg \in Messages : StatesArrive(msg)

Spec == Init /\ [][Next]_vars

(***************************************************************************)
(* Playback: the controller's API and the frame scheduler on a loaded       *)
(* timeline                                                                 *)
(***************************************************************************)

\* timelines of the playback runs: regular, with a last gap wider than the timestep,
\* and a single snapshot
PayloadIrregular == Payload(4, 1, <<0, 4, 10>>, {"a", "b"})
PlayPayloads == {PayloadA, PayloadIrregular, PayloadSingle}

\* seek targets: before the timeline, on and between snapshots, past the end
SeekTimes == {-1, 0, 3, 6, 8, 9, 50}

Speeds == {1, 2}

SetSpeed(speed) == animationController # Null /\ Call("setSpeed", speed, setSpeed(World, speed))
StepForward == animationController # Null /\ Call("stepForward", 0, stepForward(World))
StepBackward == animationController # Null /\ Call("stepBackward", 0, stepBackward(World))
GoToTime(t) == animationController # Null /\ Call("goToTime", t, goToTime(World, t))

InitPlay ==
    /\ \E p \in PlayPayloads : StartsAs(statesHandler(modelHandler(InitWorld, ModelA), p))
    /\ inflight = {}
    /\ lastOp = NoOp
    /\ layoutQuery = NoLayoutQuery
    /\ indexQuery = NoIndexQuery
    /\ bodyRun = NoBodyRun
    /\ terrainRun = NoTerrainRun
    /\ batchRun = NoBatchRun

NextPlay ==
    \/ \E d \in TickDeltas : Tick(d)
    \/ Play
    \/ Pause
    \/ \E speed \in Speeds : SetSpeed(speed)
    \/ StepForward
    \/ StepBackward
    \/ \E t \in SeekTimes : GoToTime(t)

SpecPlay == InitPlay /\ [][NextPlay]_vars

(***************************************************************************)
(* The timeline bar: clicks on it, with and without Alt, between frames of  *)
(* a playing or paused controller                                           *)
(***************************************************************************)

\* a click at x within the bar's width gives (x / width) * totalTime, a time from 0
\* to totalTime
ClickTimes == {t \in SeekTimes : t >= 0}

ProgressBarContainerClick(targetTime, altKey) ==
    /\ animationController # Null
    /\ animationController[1].playbackControls # Null
    /\ targetTime <= animationController[1].totalTime
    /\ Commit(progressBarContainerClick(World, targetTime, altKey))
    /\ lastOp' = [Op("progressBarContainerClick", targetTime,
                     progressBarContainerClick(World, targetTime, altKey))
                    EXCEPT !.note = IF altKey THEN "alt" ELSE "plain"]
    /\ UNCHANGED <<inflight, layoutQuery, indexQuery, bodyRun, terrainRun, batchRun>>

NextClick ==
    \/ \E d \in TickDeltas : Tick(d)
    \/ Play
    \/ Pause
    \/ \E t \in ClickTimes, altKey \in BOOLEAN : ProgressBarContainerClick(t, altKey)

SpecClick == InitPlay /\ [][NextClick]_vars

(***************************************************************************)
(* Recording: the controller's recording API, the record button and the     *)
(* frame scheduler on a loaded timeline                                     *)
(***************************************************************************)

\* timelines of the recording runs: one that ends within the run, one that does
\* not, and a single snapshot
PayloadShort == Payload(5, 1, <<0, 2, 4>>, {"a"})
RecPayloads == {PayloadShort, PayloadA, PayloadSingle}

\* the formats of the format selector, and one getRecordingOptionsForFormat rejects
Formats == {"jpg", "png", "gif"}

StartRecording == animationController # Null /\ Call("startRecording", 0, startRecording(World))
StopRecording == animationController # Null /\ Call("stopRecording", 0, stopRecording(World))
RecordButtonClick ==
    /\ animationController # Null
    /\ animationController[1].playbackControls # Null
    /\ Call("recordButtonClick", 0, recordButtonClick(World))
SetRecordingFormat(f) ==
    animationController # Null /\ Call("setRecordingFormat", f, setRecordingFormat(World, f))

InitRec ==
    /\ \E p \in RecPayloads : StartsAs(statesHandler(modelHandler(InitWorld, ModelA), p))
    /\ inflight = {}
    /\ lastOp = NoOp
    /\ layoutQuery = NoLayoutQuery
    /\ indexQuery = NoIndexQuery
    /\ bodyRun = NoBodyRun
    /\ terrainRun = NoTerrainRun
    /\ batchRun = NoBatchRun

NextRec ==
    \/ \E d \in TickDeltas : Tick(d)
    \/ Play
    \/ Pause
    \/ \E speed \in Speeds : SetSpeed(speed)
    \/ StartRecording
    \/ StopRecording
    \/ RecordButtonClick
    \/ \E f \in Formats : SetRecordingFormat(f)

SpecRec == InitRec /\ [][NextRec]_vars

(***************************************************************************)
(* Reload: "model" payloads that arrive while a timeline is loaded and is   *)
(* played, paused or recorded                                               *)
(***************************************************************************)

\* the models that replace the loaded one, and the states payload the server answers
\* get_states with, in the reload runs
ReloadModels == {ModelB, ModelBad}
ReloadPayloads == {PayloadB}

Reload(m) == ModelArrivesFrom(m, ReloadPayloads)

InitReload ==
    /\ StartsAs(statesHandler(modelHandler(InitWorld, ModelA), PayloadA))
    /\ inflight = {}
    /\ lastOp = NoOp
    /\ layoutQuery = NoLayoutQuery
    /\ indexQuery = NoIndexQuery
    /\ bodyRun = NoBodyRun
    /\ terrainRun = NoTerrainRun
    /\ batchRun = NoBatchRun

NextReload ==
    \/ \E m \in ReloadModels : Reload(m)
    \/ \E msg \in Messages : StatesArrive(msg)
    \/ \E d \in TickDeltas : Tick(d)
    \/ Play
    \/ Pause
    \/ StartRecording

SpecReload == InitReload /\ [][NextReload]_vars

(***************************************************************************)
(* Scalars: states payloads whose snapshots carry, lack, or carry in part   *)
(* the scalars the model declares                                           *)
(***************************************************************************)

\* models that declare scalars, with one and with two batches
ScalarModels == {[ModelA EXCEPT !.simBatches = Some(n)] : n \in 1..2}

\* what a snapshot carries for the declared scalars: nothing, or values for 0 to 2
\* batches
ScalarEntries == {Null} \cup {Some(n) : n \in 0..2}

\* payloads of 1 to MaxLen snapshots with every combination of entries
ScalarPayloads ==
    UNION {{[id |-> 6, forModel |-> ModelA.id,
             snaps |-> [i \in 1..n |-> [time |-> (i - 1) * 4, bodies |-> {"a"},
                                        scalars |-> entries[i]]]] :
               entries \in [1..n -> ScalarEntries]} : n \in 1..MaxLen}

\* the socket delivers the states payload p to statesHandler
StatesDelivered(p) ==
    LET w == statesHandler(World, p)
    IN /\ statesListener
       /\ canReceiveStates
       /\ Commit(w)
       /\ lastOp' = Op("states", p.id, w)
       /\ UNCHANGED <<inflight, layoutQuery, indexQuery, bodyRun, terrainRun, batchRun>>

InitScalars ==
    /\ \E m \in ScalarModels : StartsAs(modelHandler(InitWorld, m))
    /\ inflight = {}
    /\ lastOp = NoOp
    /\ layoutQuery = NoLayoutQuery
    /\ indexQuery = NoIndexQuery
    /\ bodyRun = NoBodyRun
    /\ terrainRun = NoTerrainRun
    /\ batchRun = NoBatchRun

NextScalars == \E p \in ScalarPayloads : StatesDelivered(p)

SpecScalars == InitScalars /\ [][NextScalars]_vars

(***************************************************************************)
(* Body: pose, optional attributes and contact points of one body, and      *)
(* updateState on state slices                                              *)
(*                                                                          *)
(* A field of a slice is absent (Null), a flat array (one row) or an array  *)
(* of rows, one per batch; the empty array [] is a flat array.  A row is a  *)
(* sequence of numbers, or NullRow for a JSON null.                         *)
(***************************************************************************)

NullRow == <<NaN>>
Flat(row) == [kind |-> "flat", row |-> row, rows |-> <<>>]
Batched(rows) == [kind |-> "batched", row |-> <<>>, rows |-> rows]

\* the rows a constructor reads: Array.isArray(data[0]) ? data : [data]
RowsOf(data) == IF data.kind = "batched" THEN data.rows ELSE <<data.row>>

\* new THREE.Vector3() and new THREE.Quaternion()
ZeroVector == <<0, 0, 0>>
IdentityQuaternion == [x |-> 0, y |-> 0, z |-> 0, w |-> 1]

\* the first n rows of a model's bodyTransform put into positions and quaternions
RECURSIVE InitialPose(_, _, _)
InitialPose(b, rows, n) ==
    IF n = 0 THEN b
    ELSE LET b1 == InitialPose(b, rows, n - 1)
             t == rows[n]
         IN IF Len(t) >= 7
            THEN [b1 EXCEPT !.positions[n] = <<t[1], t[2], t[3]>>,
                            !.quaternions[n] = [x |-> t[5], y |-> t[6], z |-> t[7], w |-> t[4]]]
            ELSE b1

\* new Body(bodyData, app) with app.batchManager.batchSize = batchSize: pose from
\* bodyTransform, storage for the declared attributes, contact points when contacts
\* are declared and the shape has points
Body_new(bodyData, batchSize) ==
    LET b == [batchSize |-> batchSize,
              positions |-> [i \in 1..batchSize |-> ZeroVector],
              quaternions |-> [i \in 1..batchSize |-> IdentityQuaternion],
              storage |-> [a \in bodyData.availableAttributes |->
                             [i \in 1..batchSize |->
                                IF a = "contacts" THEN <<>> ELSE ZeroVector]],
              hasContactPoints |-> ("contacts" \in bodyData.availableAttributes
                                      /\ bodyData.points > 0),
              pointCount |-> bodyData.points,
              active |-> [i \in 1..batchSize |-> {}],
              err |-> "none"]
    IN IF bodyData.bodyTransform = Null THEN b
       ELSE InitialPose(b, RowsOf(bodyData.bodyTransform),
                        Min(batchSize, Len(RowsOf(bodyData.bodyTransform))))

setPosition(b, positionData, batchIndex) ==
    IF positionData = NullRow \/ Len(positionData) < 3 \/ batchIndex >= b.batchSize THEN b
    ELSE [b EXCEPT !.positions[batchIndex + 1] =
              <<positionData[1], positionData[2], positionData[3]>>]

\* fault variant: the wire order is taken to be [x, y, z, w]
setOrientation_vectorFirst(b, orientationData, batchIndex) ==
    IF orientationData = NullRow \/ Len(orientationData) < 4 \/ batchIndex >= b.batchSize
    THEN b
    ELSE [b EXCEPT !.quaternions[batchIndex + 1] =
              [x |-> orientationData[1], y |-> orientationData[2],
               z |-> orientationData[3], w |-> orientationData[4]]]

\* setOrientation: the wire order [qw, qx, qy, qz] goes into Quaternion.set(qx, qy, qz, qw)
setOrientation(b, orientationData, batchIndex) ==
    IF orientationData = NullRow \/ Len(orientationData) < 4 \/ batchIndex >= b.batchSize
    THEN b
    ELSE [b EXCEPT !.quaternions[batchIndex + 1] =
              [x |-> orientationData[2], y |-> orientationData[3],
               z |-> orientationData[4], w |-> orientationData[1]]]

\* applyTransform of updateState: t.length of a null row is a TypeError
applyTransform(b, t, i) ==
    IF b.err # "none" THEN b
    ELSE IF t = NullRow THEN [b EXCEPT !.err = "TypeError"]
    ELSE IF Len(t) >= 7
         THEN setOrientation(setPosition(b, <<t[1], t[2], t[3]>>, i),
                             <<t[4], t[5], t[6], t[7]>>, i)
    ELSE b

\* fault variant: the sizes are not zeroed first, so earlier points stay active
updateContactPointsVisibility_additive(b, contactIndices, batchIndex) ==
    IF ~b.hasContactPoints THEN b
    ELSE [b EXCEPT !.active[batchIndex + 1] =
              @ \cup ({contactIndices[k] : k \in DOMAIN contactIndices}
                         \cap (0..(b.pointCount - 1)))]

\* updateContactPointsVisibility: all sizes to 0, then the listed points that exist
updateContactPointsVisibility(b, contactIndices, batchIndex) ==
    IF ~b.hasContactPoints THEN b
    ELSE [b EXCEPT !.active[batchIndex + 1] =
              {contactIndices[k] : k \in DOMAIN contactIndices} \cap (0..(b.pointCount - 1))]

\* updateAttribute: store the row of a declared attribute, then run its updater
updateAttribute(b, attr, data, batchIndex) ==
    IF b.err # "none" THEN b
    ELSE IF attr \notin DOMAIN b.storage \/ batchIndex >= b.batchSize THEN b
    ELSE IF attr = "contacts"
         THEN LET list == IF data = NullRow THEN <<>> ELSE data
              IN updateContactPointsVisibility(
                    [b EXCEPT !.storage[attr][batchIndex + 1] = list], list, batchIndex)
    ELSE IF data = NullRow THEN [b EXCEPT !.err = "TypeError"]
    ELSE [b EXCEPT !.storage[attr][batchIndex + 1] =
              IF Len(data) >= 3 THEN <<data[1], data[2], data[3]>> ELSE ZeroVector]

\* the loops of updateState over the first n rows of a batched field
RECURSIVE setPositions(_, _, _)
setPositions(b, rows, n) ==
    IF n = 0 THEN b ELSE setPosition(setPositions(b, rows, n - 1), rows[n], n - 1)

RECURSIVE setOrientations(_, _, _)
setOrientations(b, rows, n) ==
    IF n = 0 THEN b ELSE setOrientation(setOrientations(b, rows, n - 1), rows[n], n - 1)

RECURSIVE applyTransforms(_, _, _)
applyTransforms(b, rows, n) ==
    IF n = 0 THEN b ELSE applyTransform(applyTransforms(b, rows, n - 1), rows[n], n - 1)

RECURSIVE updateAttributes(_, _, _, _)
updateAttributes(b, attr, rows, n) ==
    IF n = 0 THEN b
    ELSE updateAttribute(updateAttributes(b, attr, rows, n - 1), attr, rows[n], n - 1)

\* the names of the optional attributes, in the order the model declares them
AttributeOrder == <<"velocity", "contacts">>

\* the attribute part of updateState: every declared attribute the slice carries
RECURSIVE updateDeclared(_, _, _)
updateDeclared(b, bodyState, k) ==
    IF k = 0 THEN b
    ELSE LET b1 == updateDeclared(b, bodyState, k - 1)
             attr == AttributeOrder[k]
             data == bodyState[attr]
         IN IF attr \notin DOMAIN b1.storage \/ data = Null THEN b1
            ELSE IF data.kind = "batched"
                 THEN updateAttributes(b1, attr, data.rows, Min(b1.batchSize, Len(data.rows)))
            ELSE updateAttribute(b1, attr, data.row, 0)

\* the pose part of updateState: position, orientation, then bodyTransform
updatePose(b, bodyState) ==
    LET p == bodyState.position
        o == bodyState.orientation
        t == bodyState.bodyTransform
        b1 == IF p = Null THEN b
              ELSE IF p.kind = "batched"
                   THEN setPositions(b, p.rows, Min(b.batchSize, Len(p.rows)))
              ELSE setPosition(b, p.row, 0)
        b2 == IF o = Null THEN b1
              ELSE IF o.kind = "batched"
                   THEN setOrientations(b1, o.rows, Min(b.batchSize, Len(o.rows)))
              ELSE setOrientation(b1, o.row, 0)
    IN IF t = Null THEN b2
       ELSE IF t.kind = "batched"
            THEN applyTransforms(b2, t.rows, Min(b.batchSize, Len(t.rows)))
       ELSE applyTransform(b2, t.row, 0)

\* fault variant: a field of the slice gets storage whether it is declared or not
updateState_storesEveryField(b, bodyState) ==
    LET b1 == updatePose(b, bodyState)
        b2 == updateDeclared(b1, bodyState, Len(AttributeOrder))
        carried == {a \in {"velocity", "contacts"} : bodyState[a] # Null}
    IN IF b1.err # "none" THEN b1
       ELSE [b2 EXCEPT !.storage =
               [a \in DOMAIN b2.storage \cup carried |->
                   IF a \in DOMAIN b2.storage THEN b2.storage[a]
                   ELSE [i \in 1..b2.batchSize |-> RowsOf(bodyState[a])[1]]]]

\* Body.updateState: pose fields, then the declared attributes the slice carries
updateState(b, bodyState) ==
    LET b1 == updatePose(b, bodyState)
    IN IF b1.err # "none" THEN b1
       ELSE updateDeclared(b1, bodyState, Len(AttributeOrder))

\* bound: largest batchSize of a body of the body runs
MaxBodyBatches == 2

\* the transform of the README scenario and one with seven different components
TransformScenario == <<0, 0, 1, 1, 0, 0, 0>>
TransformDistinct == <<1, 2, 3, 4, 5, 6, 7>>

\* the arrays of the first 1, 2, ... rows of a row sequence
BatchedPrefixes(rows) == {Batched(SubSeq(rows, 1, n)) : n \in 1..Len(rows)}

\* model records of a body: with and without bodyTransform, every set of declared
\* attributes, a shape with two points or with none
BodyDatas ==
    [bodyTransform : {Null, Flat(TransformScenario),
                      Batched(<<TransformDistinct, TransformScenario>>)},
     availableAttributes : SUBSET {"velocity", "contacts"},
     points : {0, 2}]

NoFields == [position |-> Null, orientation |-> Null, bodyTransform |-> Null,
             velocity |-> Null, contacts |-> Null]

\* slices that carry pose fields: combined transforms of 1 to MaxBodyBatches + 1
\* batches, a flat one, an empty one, one with a null entry; separate position and
\* orientation arrays
PoseSlices ==
    {[NoFields EXCEPT !.bodyTransform = t] :
        t \in {Flat(TransformDistinct), Flat(<<>>), Batched(<<TransformScenario, NullRow>>)}
              \cup BatchedPrefixes([i \in 1..(MaxBodyBatches + 1) |-> <<i, 2, 3, 4, 5, 6, 7>>])}
      \cup {[NoFields EXCEPT !.position = p, !.orientation = o] :
              p \in {Null, Flat(<<9, 8, 7>>), Batched(<<<<5, 5, 5>>, <<6, 6>>>>)},
              o \in {Null, Batched(<<<<0, 1, 0, 0>>>>)}}
      \cup {[NoFields EXCEPT !.position = Flat(<<9, 8, 7>>),
                             !.bodyTransform = Batched(<<TransformScenario>>)]}

\* slices that carry attribute fields: velocity and contact lists, absent, empty,
\* flat, shorter and longer than the batch count, with a null entry
AttributeSlices ==
    {[NoFields EXCEPT !.velocity = v, !.contacts = c] :
        v \in {Null, Flat(<<>>), Flat(<<1, 2, 3>>), Batched(<<<<4, 5, 6>>, NullRow>>)}
              \cup BatchedPrefixes([i \in 1..(MaxBodyBatches + 1) |-> <<i, 0, 7>>]),
        c \in {Null, Flat(<<>>), Flat(<<0>>), Batched(<<<<1>>>>),
               Batched(<<<<0, 1>>, <<>>>>), Batched(<<<<>>, <<1, 5>>, <<0>>>>)}}

Slices == PoseSlices \cup AttributeSlices

\* slices a body has been given before the one under study
EarlierSlices ==
    {[NoFields EXCEPT !.bodyTransform = Batched(<<TransformDistinct, TransformDistinct>>),
                      !.velocity = Batched(<<<<3, 2, 1>>, <<3, 2, 1>>>>),
                      !.contacts = Batched(<<<<0>>, <<1>>>>)]}

\* updateState(slice) on the body, once
UpdateState(slice) ==
    /\ bodyRun.body # Null
    /\ bodyRun.slice = Null
    /\ bodyRun' = [bodyRun EXCEPT !.body = Some(updateState(bodyRun.body[1], slice)),
                                  !.slice = Some(slice)]
    /\ UNCHANGED <<appVars, inflight, lastOp, layoutQuery, indexQuery, terrainRun, batchRun>>

\* a body as constructed, or after an earlier slice
InitBody ==
    /\ StartsAs(InitWorld)
    /\ inflight = {}
    /\ lastOp = NoOp
    /\ layoutQuery = NoLayoutQuery
    /\ indexQuery = NoIndexQuery
    /\ terrainRun = NoTerrainRun
    /\ batchRun = NoBatchRun
    /\ \E bodyData \in BodyDatas, batchSize \in 1..MaxBodyBatches :
          \/ bodyRun = [data |-> Some(bodyData), earlier |-> Null,
                        body |-> Some(Body_new(bodyData, batchSize)), slice |-> Null]
          \/ \E earlier \in EarlierSlices :
               bodyRun = [data |-> Some(bodyData), earlier |-> Some(earlier),
                          body |-> Some(updateState(Body_new(bodyData, batchSize), earlier)),
                          slice |-> Null]

NextBody == \E slice \in Slices : UpdateState(slice)

SpecBody == InitBody /\ [][NextBody]_vars

(***************************************************************************)
(* Terrain: new Terrain(terrainData, app) on terrain records whose arrays    *)
(* have and have not the length the resolution asks for                     *)
(***************************************************************************)

\* TERRAIN_CONFIG.skipNormalCells
SkipNormalCells == 10

\* the index into heightData that vertex i of the plane geometry reads
VertexDataIndex(shapeX, shapeY, i) ==
    (shapeY - (i \div shapeY) - 1) * shapeX + (i % shapeX)

\* the indices createNormalVectors samples: every skipFactor-th row and column
NormalIndices(shapeX, shapeY) ==
    LET skipFactor == Max(1, shapeX \div SkipNormalCells)
    IN {row * shapeX + col : row \in {r \in 0..(shapeY - 1) : r % skipFactor = 0},
                             col \in {c \in 0..(shapeX - 1) : c % skipFactor = 0}}

\* new Terrain: per batch, a surface whose vertices read heightData (undefined past
\* its end) and one arrow per sampled index below heightData.length; destructuring
\* normals[dataIndex] is a TypeError when the normals array ends before that index.
\* heightData and normals are given by their lengths; batchSize is
\* app.batchManager.batchSize, Null when the batch manager has no such field.
Terrain_new(terrainData, batchSize) ==
    LET shapeX == terrainData.shapeX
        shapeY == terrainData.shapeY
        batches == IF batchSize = Null THEN 0 ELSE batchSize[1]
        undefinedHeights ==
            {i \in 0..(shapeX * shapeY - 1) :
                \/ VertexDataIndex(shapeX, shapeY, i) < 0
                \/ VertexDataIndex(shapeX, shapeY, i) >= terrainData.heightData}
        arrows == {k \in NormalIndices(shapeX, shapeY) : k < terrainData.heightData}
    IN IF batches > 0 /\ \E k \in arrows : k >= terrainData.normals
       THEN [err |-> "TypeError", groups |-> 0, undefinedHeights |-> {}, arrows |-> 0]
       ELSE [err |-> "none", groups |-> batches,
             undefinedHeights |-> IF batches > 0 THEN undefinedHeights ELSE {},
             arrows |-> IF batches > 0 THEN Cardinality(arrows) ELSE 0]

\* bound: largest resolution, per axis, of the terrain records
MaxShape == 2

\* terrain records: every resolution up to MaxShape x MaxShape, arrays of every length
\* up to one more than the largest grid
TerrainDatas ==
    [shapeX : 1..MaxShape, shapeY : 1..MaxShape,
     heightData : 0..(MaxShape * MaxShape + 1), normals : 0..(MaxShape * MaxShape + 1)]

\* new Terrain(terrainData, app), as initFromModel calls it
Construct(terrainData, batchSize) ==
    /\ terrainRun = NoTerrainRun
    /\ batchRun = NoBatchRun
    /\ terrainRun' = [data |-> Some(terrainData), batchSize |-> batchSize,
                      result |-> Some(Terrain_new(terrainData, batchSize))]
    /\ UNCHANGED <<appVars, inflight, lastOp, layoutQuery, indexQuery, bodyRun, batchRun>>

InitTerrain ==
    /\ StartsAs(InitWorld)
    /\ inflight = {}
    /\ lastOp = NoOp
    /\ layoutQuery = NoLayoutQuery
    /\ indexQuery = NoIndexQuery
    /\ bodyRun = NoBodyRun
    /\ terrainRun = NoTerrainRun
    /\ batchRun = NoBatchRun

NextTerrain ==
    \E terrainData \in TerrainDatas, batchSize \in {Null, Some(1), Some(2)} :
        Construct(terrainData, batchSize)

SpecTerrain == InitTerrain /\ [][NextTerrain]_vars

(***************************************************************************)
(* Batch selection: setActiveBatch, setActiveBatchByRowCol and the arrow     *)
(* keys, on the batch manager, the camera target, the body-state window's    *)
(* batch selector and the plotter's focused batch                            *)
(***************************************************************************)

\* select.value = batchIndex: the option with that value becomes the selected one;
\* with no such option no option is selected (selectedIndex -1)
SelectValue(batchSize, batchIndex) ==
    IF batchIndex >= 0 /\ batchIndex < batchSize THEN batchIndex ELSE -1

\* BodyStateWindow.setSelectedBatch: the selector, where the window has one, takes
\* the index as its value
setSelectedBatch(run, batchIndex) ==
    IF run.batchSelector = Null THEN run
    ELSE [run EXCEPT !.batchSelector =
             Some(SelectValue(run.batchManager[1].simBatches, batchIndex))]

\* ScalarPlotter.setFocusedBatch: ignored outside the batch manager's batch count
setFocusedBatch(run, batchIndex) ==
    IF batchIndex < 0 \/ batchIndex >= run.batchManager[1].simBatches THEN run
    ELSE [run EXCEPT !.currentFocusedBatch = Some(batchIndex)]

\* changeFocusOnBatchByIndex: the camera target moves to the batch's offset
changeFocusOnBatchByIndex(run, batchIndex) ==
    LET bm == run.batchManager[1]
        rc == getRowColFromBatchIndex(bm, batchIndex)
        sideLength == CeilSqrt(bm.simBatches)
    IN IF rc.row < 0 \/ rc.col < 0 \/ rc.row >= sideLength \/ rc.col >= sideLength
       THEN [run EXCEPT !.err = "Error"]
       ELSE [run EXCEPT !.target = Some(getBatchOffset(bm, rc.row * sideLength + rc.col))]

\* BatchManager.setActiveBatch: a valid index becomes the active batch and the camera
\* focus, any other index is warned about; the body-state window and, where there is
\* one, the plotter are then given the index either way
setActiveBatch(run, batchIndex) ==
    LET bm == run.batchManager[1]
        r1 == IF batchIndex >= 0 /\ batchIndex < bm.simBatches
              THEN changeFocusOnBatchByIndex(
                      [run EXCEPT !.batchManager =
                          Some([bm EXCEPT !.currentlyActiveBatch = batchIndex])],
                      batchIndex)
              ELSE run
        r2 == setSelectedBatch(r1, batchIndex)
    IN IF r1.err # "none" THEN r1
       ELSE IF r2.currentFocusedBatch # Null THEN setFocusedBatch(r2, batchIndex)
       ELSE r2

\* BatchManager.setActiveBatchByRowCol: nothing for a cell without a batch
setActiveBatchByRowCol(run, row, col) ==
    LET batchIndex == getBatchIndexFromRowCol(run.batchManager[1], row, col)
    IN IF batchIndex = -1 THEN run ELSE setActiveBatch(run, batchIndex)

\* UIControls.changeTargetBatch: one cell from the active batch's cell, in the
\* direction (dx, dy) the camera's azimuth gives the key
changeTargetBatch(run, key, dx, dy) ==
    LET bm == run.batchManager[1]
        rc == getRowColFromBatchIndex(bm, bm.currentlyActiveBatch)
        newRow == CASE key = "arrowright" -> rc.row + dy
                    [] key = "arrowleft" -> rc.row - dy
                    [] key = "arrowdown" -> rc.row - dx
                    [] key = "arrowup" -> rc.row + dx
        newCol == CASE key = "arrowright" -> rc.col + dx
                    [] key = "arrowleft" -> rc.col - dx
                    [] key = "arrowdown" -> rc.col + dy
                    [] key = "arrowup" -> rc.col - dy
    IN setActiveBatchByRowCol(run, newRow, newCol)

\* the application after initFromModel(model): batch 0 active, the camera on the
\* origin, a selector showing batch 0 when there are several batches, and a plotter
\* focused on batch 0 when the model names scalars
BatchRunOf(model) ==
    LET bm == BatchManager_initialize(model)
    IN [batchManager |-> Some(bm),
        target |-> Some([x |-> 0, y |-> 0, z |-> 0]),
        batchSelector |-> IF bm.simBatches > 1 THEN Some(0) ELSE Null,
        currentFocusedBatch |-> IF model.scalarNames THEN Some(0) ELSE Null,
        call |-> Null, err |-> "none"]

\* models with every batch count, with and without scalars
BatchModels ==
    {[ModelA EXCEPT !.simBatches = Some(n), !.scalarNames = s] :
        n \in 1..MaxBatches, s \in BOOLEAN}

\* indices from one below the first batch to one past the last of the largest model
BatchIndices == (0 - 1)..MaxBatches

\* rows and columns from one before the grid to one past the largest grid
Cells == (0 - 1)..CeilSqrt(MaxBatches)

Keys == {"arrowright", "arrowleft", "arrowdown", "arrowup"}

\* the (dx, dy) changeTargetBatch derives from the azimuth: one axis, one sign
Directions == {<<1, 0>>, <<0 - 1, 0>>, <<0, 1>>, <<0, 0 - 1>>}

Called(name, a, b, run) ==
    /\ batchRun' = [run EXCEPT !.call = Some([name |-> name, a |-> a, b |-> b])]
    /\ UNCHANGED <<appVars, inflight, lastOp, layoutQuery, indexQuery, bodyRun, terrainRun>>

SetActiveBatch(batchIndex) ==
    /\ batchRun.batchManager # Null
    /\ Called("setActiveBatch", batchIndex, 0,
              setActiveBatch([batchRun EXCEPT !.err = "none"], batchIndex))

SetActiveBatchByRowCol(row, col) ==
    /\ batchRun.batchManager # Null
    /\ Called("setActiveBatchByRowCol", row, col,
              setActiveBatchByRowCol([batchRun EXCEPT !.err = "none"], row, col))

ChangeTargetBatch(key, dir) ==
    /\ batchRun.batchManager # Null
    /\ Called(key, dir[1], dir[2],
              changeTargetBatch([batchRun EXCEPT !.err = "none"], key, dir[1], dir[2]))

InitBatch ==
    /\ StartsAs(InitWorld)
    /\ inflight = {}
    /\ lastOp = NoOp
    /\ layoutQuery = NoLayoutQuery
    /\ indexQuery = NoIndexQuery
    /\ bodyRun = NoBodyRun
    /\ terrainRun = NoTerrainRun
    /\ batchRun \in {BatchRunOf(m) : m \in BatchModels}

NextBatch ==
    \/ \E batchIndex \in BatchIndices : SetActiveBatch(batchIndex)
    \/ \E row \in Cells, col \in Cells : SetActiveBatchByRowCol(row, col)
    \/ \E key \in Keys, dir \in Directions : ChangeTargetBatch(key, dir)

SpecBatch == InitBatch /\ [][NextBatch]_vars

(***************************************************************************)
(* States load: loadAnimation on the controller initFromModel has just       *)
(* constructed, for models with every kind of dt and timelines of every      *)
(* shape                                                                     *)
(***************************************************************************)

\* the models of the index runs, with a second body
LoadModels == {[IndexModel(dt) EXCEPT !.bodies = {"a", "b"}] : dt \in IndexTimesteps}

\* the timelines of the index runs, the empty array, and timelines whose records
\* name both bodies, one body and a body the model does not have, or no body
LoadTimelines ==
    IndexTimelines
      \cup {Timeline(<<>>)}
      \cup {Payload(7, 1, times, names) :
              times \in {<<0, 4, 8>>, <<3>>, <<2, 1>>, <<0, 0>>},
              names \in {{"a", "b"}, {"a", "z"}, {"b"}, {}}}

\* loadAnimation(states) on a controller that has no states yet
LoadAnimation(p) ==
    /\ animationController # Null
    /\ animationController[1].states = Null
    /\ Call("loadAnimation", Len(p.snaps), loadAnimation(World, p))

InitLoad ==
    /\ \E m \in LoadModels : StartsAs(modelHandler(InitWorld, m))
    /\ inflight = {}
    /\ lastOp = NoOp
    /\ layoutQuery = NoLayoutQuery
    /\ indexQuery = NoIndexQuery
    /\ bodyRun = NoBodyRun
    /\ terrainRun = NoTerrainRun
    /\ batchRun = NoBatchRun

NextLoad == \E p \in LoadTimelines : LoadAnimation(p)

SpecLoad == InitLoad /\ [][NextLoad]_vars

(***************************************************************************)
(* Index and clock: playback, stepping, seeking and recording on timelines   *)
(* that are unevenly spaced and that start after 0                           *)
(***************************************************************************)

PayloadUneven == Payload(8, 1, <<0, 4, 5>>, {"a"})
PayloadLate == Payload(9, 1, <<4, 8, 12>>, {"a"})
SyncPayloads == {PayloadUneven, PayloadLate}

InitSync ==
    /\ \E p \in SyncPayloads : StartsAs(statesHandler(modelHandler(InitWorld, ModelA), p))
    /\ inflight = {}
    /\ lastOp = NoOp
    /\ layoutQuery = NoLayoutQuery
    /\ indexQuery = NoIndexQuery
    /\ bodyRun = NoBodyRun
    /\ terrainRun = NoTerrainRun
    /\ batchRun = NoBatchRun

NextSync ==
    \/ \E d \in TickDeltas : Tick(d)
    \/ Play
    \/ Pause
    \/ StepForward
    \/ StepBackward
    \/ \E t \in {0, 4, 5} : GoToTime(t)
    \/ StartRecording

SpecSync == InitSync /\ [][NextSync]_vars

(***************************************************************************)
(* The playback bar's events: buttons, keys and timeline clicks between      *)
(* frames                                                                    *)
(***************************************************************************)

UiKeys == {"r", " ", "ArrowRight", "ArrowLeft"}

PlayButtonClick ==
    /\ animationController # Null
    /\ animationController[1].playbackControls # Null
    /\ Call("playButtonClick", 0, playButtonClick(World))

StepBackButtonClick ==
    /\ animationController # Null
    /\ animationController[1].playbackControls # Null
    /\ Call("stepBackButtonClick", 0, stepBackButtonClick(World))

StepForwardButtonClick ==
    /\ animationController # Null
    /\ animationController[1].playbackControls # Null
    /\ Call("stepForwardButtonClick", 0, stepForwardButtonClick(World))

KeyDown(key, altKey) ==
    /\ animationController # Null
    /\ animationController[1].playbackControls # Null
    /\ Commit(keydownListener(World, key, altKey))
    /\ lastOp' = [Op("keydown", 0, keydownListener(World, key, altKey))
                    EXCEPT !.note = IF altKey THEN "alt" ELSE key]
    /\ UNCHANGED <<inflight, layoutQuery, indexQuery, bodyRun, terrainRun, batchRun>>

InitUi ==
    /\ StartsAs(statesHandler(modelHandler(InitWorld, ModelA), PayloadA))
    /\ inflight = {}
    /\ lastOp = NoOp
    /\ layoutQuery = NoLayoutQuery
    /\ indexQuery = NoIndexQuery
    /\ bodyRun = NoBodyRun
    /\ terrainRun = NoTerrainRun
    /\ batchRun = NoBatchRun

NextUi ==
    \/ \E d \in {3} : Tick(d)
    \/ PlayButtonClick
    \/ StepBackButtonClick
    \/ StepForwardButtonClick
    \/ RecordButtonClick
    \/ \E key \in UiKeys, altKey \in BOOLEAN : KeyDown(key, altKey)
    \/ \E t \in {4}, altKey \in BOOLEAN : ProgressBarContainerClick(t, altKey)

SpecUi == InitUi /\ [][NextUi]_vars

(***************************************************************************)
(* Throttling: frames closer together and further apart than the widgets'    *)
(* delays, with steps and seeks between them                                 *)
(***************************************************************************)

\* bound: the wall clock of the throttling runs stops advancing here
MaxFrameNow == 17

\* wall-clock time between two frames: below every delay, the scene's delay, the
\* body-state window's delay
FrameDeltas == {2, 5, 10}

\* one frame of the scheduler, d after the previous one: SimView.animate(now)
Frame(d) ==
    LET w == SimView_animate([World EXCEPT !.now = now + d])
    IN /\ loopRunning
       /\ now + d <= MaxFrameNow
       /\ Commit(w)
       /\ lastOp' = [Op("tick", d, w) EXCEPT !.note = TickNote(animationController[1], now + d)]
       /\ UNCHANGED <<inflight, layoutQuery, indexQuery, bodyRun, terrainRun, batchRun>>

InitThrottle ==
    /\ StartsAs(statesHandler(modelHandler(InitWorld, ModelA), PayloadA))
    /\ inflight = {}
    /\ lastOp = NoOp
    /\ layoutQuery = NoLayoutQuery
    /\ indexQuery = NoIndexQuery
    /\ bodyRun = NoBodyRun
    /\ terrainRun = NoTerrainRun
    /\ batchRun = NoBatchRun

NextThrottle ==
    \/ \E d \in FrameDeltas : Frame(d)
    \/ Play
    \/ Pause
    \/ StepForward
    \/ \E t \in {4} : GoToTime(t)

SpecThrottle == InitThrottle /\ [][NextThrottle]_vars

(***************************************************************************)
(* Properties of the batch layout (SpecLayout)                              *)
(***************************************************************************)

\* C3: for a populated cell (r, c) of the square grid the index of the cell maps back
\* to (r, c), and a cell whose computed index r * side + c is outside [0, simBatches)
\* (negative, beyond the grid, or unpopulated) yields the sentinel -1.
C3_LayoutRoundTrip ==
    layoutQuery.kind = "rowcol" =>
       LET bm == batchManager[1]
           side == CeilSqrt(bm.simBatches)
           r == layoutQuery.row
           c == layoutQuery.col
           computed == r * side + c
       IN /\ (r >= 0 /\ c >= 0 /\ r < side /\ c < side /\ computed < bm.simBatches)
                => /\ layoutQuery.index = computed
                   /\ layoutQuery.rowcol = [row |-> r, col |-> c]
          /\ (computed < 0 \/ computed >= bm.simBatches) => layoutQuery.index = -1

\* a populated cell off the first row and column has been mapped there and back
C3_Witness ==
    /\ layoutQuery.kind = "rowcol"
    /\ layoutQuery.row = 1 /\ layoutQuery.col = 1
    /\ layoutQuery.index = 1 * CeilSqrt(batchManager[1].simBatches) + 1
    /\ layoutQuery.rowcol = [row |-> 1, col |-> 1]

\* C4: after a model load every batch i has the offset (col * (sizeX + 0.5),
\* row * (sizeY + 0.5), 0) with row = floor(i / side), col = i mod side; two batches
\* on a 10 m terrain sit at (0,0,0) and (10.5,0,0); for positive extents the offsets
\* of distinct batches differ.
C4_BatchOffsets ==
    batchManager # Null =>
       LET bm == batchManager[1]
           n == bm.simBatches
           side == CeilSqrt(n)
           sizeX == terrain[1].sizeX
           sizeY == terrain[1].sizeY
       IN /\ \A i \in 0..(n - 1) :
                getBatchOffset(bm, i) = [x |-> (i % side) * (sizeX + 1),
                                         y |-> (i \div side) * (sizeY + 1),
                                         z |-> 0]
          /\ layoutQuery.kind = "offset" /\ layoutQuery.index \in 0..(n - 1)
                => layoutQuery.offset = [x |-> (layoutQuery.index % side) * (sizeX + 1),
                                         y |-> (layoutQuery.index \div side) * (sizeY + 1),
                                         z |-> 0]
          /\ (n = 2 /\ sizeX = 20 /\ sizeY = 20)
                => /\ getBatchOffset(bm, 0) = [x |-> 0, y |-> 0, z |-> 0]
                   /\ getBatchOffset(bm, 1) = [x |-> 21, y |-> 0, z |-> 0]
          /\ (sizeX > 0 /\ sizeY > 0)
                => \A i, j \in 0..(n - 1) :
                      i # j => getBatchOffset(bm, i) # getBatchOffset(bm, j)

\* the offset of batch 1 of two batches on a 10 m terrain has been queried
C4_Witness ==
    /\ batchManager # Null
    /\ batchManager[1].simBatches = 2
    /\ terrain = Some([sizeX |-> 20, sizeY |-> 20])
    /\ layoutQuery.kind = "offset" /\ layoutQuery.index = 1
    /\ layoutQuery.offset = [x |-> 21, y |-> 0, z |-> 0]

(***************************************************************************)
(* Properties of getStateIndexForTime (SpecIndex)                           *)
(***************************************************************************)

Abs(x) == IF x >= 0 THEN x ELSE 0 - x

\* the controller's timestep is positive and snapshot i has time i * timestep
RegularTimeline(c) ==
    /\ c.simulationTimestep[1] > 0
    /\ \A i \in 0..(StatesLength(c) - 1) : StateAt(c, i).time = i * c.simulationTimestep[1]

\* C5: a query changes nothing of the application, its result for any time is a valid
\* index, and a later time within [0, totalTime] never gets a smaller index.
C5_IndexQueryPureMonotonic ==
    /\ [](indexQuery.kind = "query" =>
            LET c == animationController[1]
            IN /\ indexQuery.index \in 0..(StatesLength(c) - 1)
               /\ indexQuery.time >= 0 =>
                     \A t2 \in indexQuery.time..c.totalTime :
                        indexQuery.index <= getStateIndexForTime(c, t2))
    /\ [][lastOp'.name = "getStateIndexForTime" =>
            /\ UNCHANGED appVars
            /\ indexQuery'.index = getStateIndexForTime(animationController[1], lastOp'.arg)]_vars

\* a query inside the timeline returned an interior index
C5_Witness ==
    /\ indexQuery.kind = "query"
    /\ indexQuery.time > 0 /\ indexQuery.time < animationController[1].totalTime
    /\ indexQuery.index > 0
    /\ indexQuery.index < StatesLength(animationController[1]) - 1

\* C6: on a timeline whose snapshot i has time i * timestep, the index returned for a
\* time in [0, totalTime] is one whose time is nearest to it; with timestep 0.1 s and
\* three snapshots 0.14 s maps to 1 and 0.16 s to 2.
C6_NearestIndex ==
    (indexQuery.kind = "query" /\ RegularTimeline(animationController[1])) =>
       LET c == animationController[1]
           t == indexQuery.time
       IN /\ (t >= 0 /\ t <= c.totalTime) =>
                \A j \in 0..(StatesLength(c) - 1) :
                   Abs(StateAt(c, indexQuery.index).time - t) <= Abs(StateAt(c, j).time - t)
          /\ (c.simulationTimestep[1] = 30 /\ StatesLength(c) = 3 /\ t = 42)
                => indexQuery.index = 1
          /\ (c.simulationTimestep[1] = 30 /\ StatesLength(c) = 3 /\ t = 48)
                => indexQuery.index = 2

\* 0.16 s has been looked up on the three-snapshot timeline of timestep 0.1 s
C6_Witness ==
    /\ indexQuery.kind = "query"
    /\ RegularTimeline(animationController[1])
    /\ animationController[1].simulationTimestep[1] = 30
    /\ StatesLength(animationController[1]) = 3
    /\ indexQuery.time = 48 /\ indexQuery.index = 2

(***************************************************************************)
(* Properties of the socket handlers (Spec)                                 *)
(***************************************************************************)

\* C1: a "states" payload delivered before any "model" payload has been processed
\* changes nothing (no timeline is loaded); after a processed model the first
\* "states" payload is accepted (handed to processStates, which loads it) and closes
\* the gate; every further one changes nothing until the next model is processed.
\* At most one payload is accepted per processed model.
C1_AcceptGate ==
    /\ [](acceptedSinceModel <= 1)
    /\ [](currentModel = 0 => animationController = Null)
    /\ [][lastOp'.name = "states" =>
            IF currentModel = 0 \/ acceptedSinceModel >= 1
            THEN UNCHANGED appVars
            ELSE /\ acceptedSinceModel' = 1
                 /\ ~canReceiveStates'
                 /\ animationController'[1].states = Some(PayloadOf(lastOp'.arg))]_vars

\* a second payload has just been dropped: one was accepted for the current model
\* and the one delivered last is not the one that is loaded
C1_Witness ==
    /\ lastOp.name = "states"
    /\ currentModel # 0
    /\ acceptedSinceModel = 1
    /\ ~canReceiveStates
    /\ animationController[1].states # Null
    /\ animationController[1].states[1].id # lastOp.arg

\* C2: a "states" payload that answers the get_states of a model other than the
\* current one (the current one was processed after the request was made) is not
\* applied: the controller and the entities built from the current model are
\* left as they were.
C2_StalePayloadRejected ==
    [][(lastOp'.name = "states" /\ lastOp'.req # 0 /\ lastOp'.req # currentModel)
          => UNCHANGED <<animationController, bodies>>]_vars

(***************************************************************************)
(* Properties of playback (SpecPlay)                                        *)
(***************************************************************************)

\* the bodies named by snapshot i of the loaded timeline show that snapshot
ShowsSnapshot(ctl, bs, i) ==
    \A n \in DOMAIN bs.state :
        n \in StateAt(ctl, i).bodies => bs.state[n] = <<ctl.states[1].id, i>>

\* C7: a frame that, while Playing, carries the clock of a timeline with
\* totalTime > 0 past totalTime leaves the controller Playing at the index of
\* (previous currentTime + elapsed * playbackSpeed) mod totalTime, shown by the
\* entities, without an error; and no frame at all turns isPlaying off.
C7_LoopAtEnd ==
    [][lastOp'.name = "tick" =>
         LET c == animationController[1]
             adv == Advanced(c, now')
         IN /\ c.isPlaying => animationController'[1].isPlaying
            /\ (c.isPlaying /\ c.states # Null /\ c.totalTime > 0
                   /\ adv # NaN /\ adv > c.totalTime)
                 => /\ animationController'[1].currentStateIndex
                         = getStateIndexForTime(c, adv % c.totalTime)
                    /\ ShowsSnapshot(animationController'[1], bodies'[1],
                                     getStateIndexForTime(c, adv % c.totalTime))
                    /\ lastOp'.err = "none"]_vars

\* a frame has just wrapped the clock into the middle of the timeline
C7_Witness ==
    /\ lastOp.name = "tick"
    /\ lastOp.note = "wrapped"
    /\ animationController[1].isPlaying
    /\ animationController[1].currentStateIndex = 1

\* C8: on a loaded timeline with totalTime > 0, goToTime(t) with t < 0 or
\* t > totalTime changes nothing, Playing or Paused: index, clock, isPlaying,
\* entities and widgets are as before, and no error is raised.
C8_OutOfRangeSeekIgnored ==
    [][(/\ lastOp'.name = "goToTime"
        /\ animationController[1].states # Null
        /\ animationController[1].totalTime > 0
        /\ (lastOp'.arg < 0 \/ lastOp'.arg > animationController[1].totalTime))
          => UNCHANGED appVars /\ lastOp'.err = "none"]_vars

\* a seek past the end has just been ignored during playback, away from index 0
C8_Witness ==
    /\ lastOp.name = "goToTime"
    /\ animationController[1].totalTime > 0
    /\ lastOp.arg > animationController[1].totalTime
    /\ animationController[1].isPlaying
    /\ animationController[1].currentStateIndex = 1

\* the playback bar and the body-state window have just been redrawn from the
\* controller ctl and the bodies bs
Redrawn(ctl, bsw, bs) ==
    /\ ctl.playbackControls[1].shownTime = ctl.currentTime
    /\ ctl.playbackControls[1].shownTotal = ctl.totalTime
    /\ ctl.playbackControls[1].lastRenderTime = NegInf
    /\ bsw.shown = Some(bs.state)
    /\ bsw.lastRenderTime = NegInf

\* goToTime(t) with 0 <= t <= totalTime on the loaded controller
InRangeSeek ==
    /\ lastOp'.name = "goToTime"
    /\ animationController[1].states # Null
    /\ lastOp'.arg >= 0
    /\ lastOp'.arg <= animationController[1].totalTime

\* the seek set the index to getStateIndexForTime(t) and pushed that snapshot
SeekApplied ==
    /\ animationController'[1].currentStateIndex
          = getStateIndexForTime(animationController[1], lastOp'.arg)
    /\ ShowsSnapshot(animationController'[1], bodies'[1],
                     getStateIndexForTime(animationController[1], lastOp'.arg))
    /\ lastOp'.err = "none"

\* C9 as stated: an in-range goToTime(t), Playing or Paused, sets the index to
\* getStateIndexForTime(t), pushes that snapshot into the entities and redraws the
\* playback bar and the body-state window.
C9_SeekAlwaysRedraws ==
    [][InRangeSeek =>
         /\ SeekApplied
         /\ Redrawn(animationController'[1], bodyStateWindow'[1], bodies'[1])]_vars

\* C9: an in-range goToTime(t), Playing or Paused, sets the index to
\* getStateIndexForTime(t) and pushes that snapshot into the entities; when Paused
\* it also redraws the playback bar and the body-state window, when Playing it
\* leaves both widgets as they were.
C9_SeekRedrawsWhenPaused ==
    [][InRangeSeek =>
         /\ SeekApplied
         /\ IF animationController[1].isPlaying
            THEN /\ animationController'[1].playbackControls
                       = animationController[1].playbackControls
                 /\ bodyStateWindow' = bodyStateWindow
            ELSE Redrawn(animationController'[1], bodyStateWindow'[1], bodies'[1])]_vars

\* a paused seek to the last snapshot has just been shown by the playback bar
C9_Witness ==
    /\ lastOp.name = "goToTime"
    /\ ~animationController[1].isPlaying
    /\ animationController[1].currentStateIndex = 2
    /\ animationController[1].playbackControls[1].shownTime = lastOp.arg
    /\ lastOp.arg = animationController[1].totalTime
    /\ bodies[1].state["a"] = <<animationController[1].states[1].id, 2>>

\* C10: while isPlaying is true, stepForward() and stepBackward() change nothing:
\* index, clock, entities and widgets are as before.
C10_StepIgnoredWhilePlaying ==
    [][(lastOp'.name \in {"stepForward", "stepBackward"} /\ animationController[1].isPlaying)
          => UNCHANGED appVars /\ lastOp'.err = "none"]_vars

\* a step forward has just been ignored during playback, away from index 0
C10_Witness ==
    /\ lastOp.name = "stepForward"
    /\ animationController[1].isPlaying
    /\ animationController[1].currentStateIndex = 1

\* C11: the controller starts Paused; play() from Paused makes it Playing and
\* restarts the elapsed-time reference at the current wall-clock time, so the next
\* frame advances the clock by the time since play() only; play() while Playing
\* changes nothing; pause() makes it Paused and keeps index and clock.
C11_PlayPause ==
    /\ [](lastOp.name = "none" => ~animationController[1].isPlaying)
    /\ [][lastOp'.name = "play" =>
            IF animationController[1].isPlaying
            THEN UNCHANGED appVars
            ELSE /\ animationController'[1]
                      = [animationController[1] EXCEPT !.isPlaying = TRUE,
                                                       !.lastUpdateTime = Some(now)]
                 /\ UNCHANGED <<now, bodies, scalarPlotter, bodyStateWindow, scene>>]_vars
    /\ [][(/\ lastOp.name = "play"
           /\ lastOp.note \in {"started", "resumed"}
           /\ lastOp'.name = "tick"
           /\ animationController[1].totalTime > 0)
            => animationController'[1].currentStateIndex
                 = getStateIndexForTime(animationController[1],
                      (animationController[1].currentTime
                          + lastOp'.arg * animationController[1].playbackSpeed)
                        % animationController[1].totalTime)]_vars
    /\ [][lastOp'.name = "pause" =>
            /\ animationController'[1] = [animationController[1] EXCEPT !.isPlaying = FALSE]
            /\ UNCHANGED <<now, bodies, scalarPlotter, bodyStateWindow, scene>>]_vars

\* play() has just resumed a controller that frames had found paused, away from index 0
C11_Witness ==
    /\ lastOp.name = "play"
    /\ lastOp.note = "resumed"
    /\ animationController[1].isPlaying
    /\ animationController[1].lastUpdateTime = Some(now)
    /\ animationController[1].currentStateIndex = 1

(***************************************************************************)
(* Properties of recording (SpecRec)                                        *)
(***************************************************************************)

\* isPlaying, currentStateIndex, currentTime and playbackSpeed of a controller
PlaybackState(c) == <<c.isPlaying, c.currentStateIndex, c.currentTime, c.playbackSpeed>>

\* the step is a start of recording: startRecording(), or a click on the record
\* button of a controller that is not recording
StartsRecording ==
    \/ lastOp'.name = "startRecording"
    \/ lastOp'.name = "recordButtonClick" /\ ~animationController[1].isRecording

\* the step is a stop of recording: stopRecording(), or a click on the record
\* button of a controller that is recording
StopsRecording ==
    \/ lastOp'.name = "stopRecording"
    \/ lastOp'.name = "recordButtonClick" /\ animationController[1].isRecording

\* C12: startRecording with a supported format on a controller that is not recording
\* seeks to index 0 (clock and entities at snapshot 0) with a capturer that has
\* captured no frame yet, and leaves the controller Recording and Playing whether it
\* was Playing or Paused; startRecording while recording changes nothing.
C12_StartRecording ==
    /\ [][(lastOp'.name = "startRecording" /\ animationController[1].isRecording)
            => UNCHANGED appVars]_vars
    /\ [][(/\ StartsRecording
           /\ ~animationController[1].isRecording
           /\ SupportedFormat(animationController[1].recordingFormat))
            => /\ animationController'[1].isRecording
               /\ animationController'[1].isPlaying
               /\ animationController'[1].currentStateIndex = 0
               /\ animationController'[1].currentTime = StateAt(animationController[1], 0).time
               /\ ShowsSnapshot(animationController'[1], bodies'[1], 0)
               /\ animationController'[1].capturer = Some([running |-> TRUE, frames |-> FALSE, captured |-> Null])
               /\ animationController'[1].startTime = Some(now)
               /\ lastOp'.err = "none"]_vars

\* a recording has just been started from a paused controller: index 0, playing,
\* no frame captured
C12_Witness ==
    /\ lastOp.name = "startRecording"
    /\ lastOp.err = "none"
    /\ animationController[1].isRecording
    /\ animationController[1].isPlaying
    /\ animationController[1].lastUpdateTime = Some(now)
    /\ now > 0
    /\ animationController[1].currentStateIndex = 0
    /\ ~animationController[1].capturer[1].frames

\* C13: stopRecording, called by the user (API or record button), leaves isPlaying,
\* currentStateIndex, currentTime, playbackSpeed and the entities as they were; the
\* frame that stops the recording automatically leaves them as the same frame
\* without a recording would; stopRecording when not recording changes nothing.
C13_StopRecording ==
    /\ [][(lastOp'.name = "stopRecording" /\ ~animationController[1].isRecording)
            => UNCHANGED appVars]_vars
    /\ [][(StopsRecording /\ animationController[1].isRecording)
            => /\ ~animationController'[1].isRecording
               /\ PlaybackState(animationController'[1]) = PlaybackState(animationController[1])
               /\ UNCHANGED <<now, bodies, scalarPlotter, bodyStateWindow>>]_vars
    /\ [][(lastOp'.name = "tick" /\ lastOp'.note = "autostop")
            => /\ ~animationController'[1].isRecording
               /\ PlaybackState(animationController'[1])
                    = PlaybackState(AC(animate(
                         SetAC([World EXCEPT !.now = now'],
                               [animationController[1] EXCEPT !.isRecording = FALSE]))))
               /\ animationController'[1].isPlaying]_vars

\* a frame has just stopped the recording by itself and playback goes on
C13_Witness ==
    /\ lastOp.name = "tick"
    /\ lastOp.note = "autostop"
    /\ ~animationController[1].isRecording
    /\ animationController[1].isPlaying
    /\ animationController[1].playbackControls[1].recordButton = "REC"

\* C14: while Recording and Playing on a timeline with totalTime > 0, a frame stops
\* the recording exactly when the wall-clock time since startRecording has reached
\* totalTime / playbackSpeed, and not before.
C14_AutoStopAtAdjustedDuration ==
    [][(/\ lastOp'.name = "tick"
        /\ animationController[1].isRecording
        /\ animationController[1].isPlaying
        /\ animationController[1].startTime # Null
        /\ animationController[1].totalTime > 0)
          => (animationController'[1].isRecording
                <=> (now' - animationController[1].startTime[1])
                       * animationController[1].playbackSpeed
                         < animationController[1].totalTime)]_vars

(***************************************************************************)
(* Properties of the per-frame update (SpecPlay)                            *)
(***************************************************************************)

\* the index the frame at wall-clock time t computes for the controller c
FrameIndex(c, t) == getStateIndexForTime(c, JsMod(Advanced(c, t), c.totalTime))

\* C15: a frame that, while Playing, computes the index the controller already has
\* applies updateState to no entity, does not set the plotter's end index and
\* redraws neither the playback bar nor the body-state window.
C15_Coalescing ==
    [][(/\ lastOp'.name = "tick"
        /\ animationController[1].isPlaying
        /\ animationController[1].states # Null
        /\ FrameIndex(animationController[1], now') # NaN
        /\ FrameIndex(animationController[1], now') = animationController[1].currentStateIndex)
          => /\ bodies' = bodies
             /\ scalarPlotter'[1].currentEndIndex = scalarPlotter[1].currentEndIndex
             /\ animationController'[1].playbackControls
                   = animationController[1].playbackControls
             /\ bodyStateWindow' = bodyStateWindow
             /\ lastOp'.err = "none"]_vars

\* a frame has just advanced the clock of a playing controller without leaving
\* snapshot 1
C15_Witness ==
    /\ lastOp.name = "tick"
    /\ lastOp.note = "advanced"
    /\ animationController[1].isPlaying
    /\ animationController[1].currentStateIndex = 1
    /\ animationController[1].currentTime # StateAt(animationController[1], 1).time
    /\ animationController[1].lastUpdateTime = Some(now)

\* C16: when a frame, a step or a seek changes currentStateIndex to a snapshot of the
\* timeline, every body of the model named by that snapshot has updateState applied
\* exactly once with its record, every other body is left alone, and a record that
\* names no body of the model raises no error.
C16_PushOnIndexChange ==
    [][(/\ lastOp'.name \in {"tick", "stepForward", "stepBackward", "goToTime"}
        /\ animationController'[1].currentStateIndex # animationController[1].currentStateIndex
        /\ ValidIndex(animationController'[1], animationController'[1].currentStateIndex))
          => /\ lastOp'.err = "none"
             /\ \A n \in DOMAIN bodies[1].state :
                  IF n \in StateAt(animationController'[1],
                                   animationController'[1].currentStateIndex).bodies
                  THEN /\ bodies'[1].state[n]
                            = <<animationController'[1].states[1].id,
                                animationController'[1].currentStateIndex>>
                       /\ bodies'[1].updates[n] = (bodies[1].updates[n] + 1) % (MaxUpdates + 1)
                  ELSE /\ bodies'[1].state[n] = bodies[1].state[n]
                       /\ bodies'[1].updates[n] = bodies[1].updates[n]]_vars

\* a frame has just moved a timeline whose snapshots name a body the model lacks to
\* snapshot 1: body "a" shows it, body "b", which the snapshots do not name, was
\* never updated
C16_Witness ==
    /\ lastOp.name = "tick"
    /\ lastOp.err = "none"
    /\ animationController[1].currentStateIndex = 1
    /\ "z" \in StateAt(animationController[1], 1).bodies
    /\ bodies[1].state["a"] = <<animationController[1].states[1].id, 1>>
    /\ bodies[1].state["b"] = <<0, 0>>
    /\ bodies[1].updates["b"] = 0

(***************************************************************************)
(* Properties of Body.updateState (SpecBody)                                *)
(***************************************************************************)

\* the step is a call of updateState
UpdateStateStep == bodyRun.body # Null /\ bodyRun.slice = Null /\ bodyRun'.slice # Null

\* the slice without the attribute fields the body does not declare
DeclaredOnly(b, bodyState) ==
    [bodyState EXCEPT !.velocity = IF "velocity" \in DOMAIN b.storage THEN @ ELSE Null,
                      !.contacts = IF "contacts" \in DOMAIN b.storage THEN @ ELSE Null]

\* C17: the attribute set of a body is the one declared at construction and never
\* changes; a field of the slice that is not in it has no effect at all: the body
\* after updateState, and the error raised, are those of the slice without that
\* field, and a body without contacts keeps its contact points as they were.
C17_AttributeGating ==
    /\ [](bodyRun.body # Null =>
             DOMAIN bodyRun.body[1].storage = bodyRun.data[1].availableAttributes)
    /\ [][UpdateStateStep =>
            /\ bodyRun'.body[1]
                 = updateState(bodyRun.body[1], DeclaredOnly(bodyRun.body[1], bodyRun'.slice[1]))
            /\ "contacts" \notin DOMAIN bodyRun.body[1].storage
                 => bodyRun'.body[1].active = bodyRun.body[1].active
            /\ (bodyRun'.slice[1].position = Null /\ bodyRun'.slice[1].orientation = Null
                  /\ bodyRun'.slice[1].bodyTransform = Null
                  /\ DOMAIN bodyRun.body[1].storage = {})
                 => bodyRun'.body[1] = bodyRun.body[1]]_vars

\* a body that declares velocity only has just taken the velocity of a slice that
\* also carries contacts
C17_Witness ==
    /\ bodyRun.slice # Null
    /\ bodyRun.slice[1].contacts # Null
    /\ bodyRun.slice[1].velocity = Flat(<<1, 2, 3>>)
    /\ DOMAIN bodyRun.body[1].storage = {"velocity"}
    /\ bodyRun.body[1].storage["velocity"][1] = <<1, 2, 3>>
    /\ bodyRun.body[1].err = "none"

\* an array of batches: an array of rows, or the empty array (no batch at all)
IsBatchedField(data) == data.kind = "batched" \/ data.row = <<>>

\* the rows of an array of batches
BatchRows(data) == IF data.kind = "batched" THEN data.rows ELSE <<>>

\* every row the slice carries is an array as long as its field asks for
RowsWellFormed(bodyState) ==
    LET ok(f, n) == bodyState[f] = Null
                      \/ /\ bodyState[f].kind = "flat" => Len(bodyState[f].row) \in {0, n}
                         /\ \A k \in DOMAIN bodyState[f].rows :
                               /\ bodyState[f].rows[k] # NullRow
                               /\ Len(bodyState[f].rows[k]) = n
    IN ok("position", 3) /\ ok("orientation", 4) /\ ok("bodyTransform", 7) /\ ok("velocity", 3)

\* C18: for a body of B batches and a batched field of length L (bodyTransform, or a
\* declared velocity or contacts attribute) updateState stores the incoming value in
\* exactly the batches below min(B, L), leaves the other batches as they were, and
\* raises no error; a flat bodyTransform goes to batch 0 only.
C18_PartialBatchUpdates ==
    [][(UpdateStateStep /\ RowsWellFormed(bodyRun'.slice[1])) =>
         LET b == bodyRun.body[1]
             b2 == bodyRun'.body[1]
             bodyState == bodyRun'.slice[1]
             t == bodyState.bodyTransform
             v == bodyState.velocity
             c == bodyState.contacts
         IN /\ b2.err = "none"
            /\ (t # Null /\ IsBatchedField(t)) =>
                  \A i \in 1..b.batchSize :
                     IF i <= Len(BatchRows(t))
                     THEN b2.positions[i] = SubSeq(BatchRows(t)[i], 1, 3)
                     ELSE /\ b2.positions[i] = b.positions[i]
                          /\ b2.quaternions[i] = b.quaternions[i]
            /\ (t # Null /\ ~IsBatchedField(t)) =>
                  /\ b2.positions[1] = SubSeq(t.row, 1, 3)
                  /\ \A i \in 2..b.batchSize :
                        /\ b2.positions[i] = b.positions[i]
                        /\ b2.quaternions[i] = b.quaternions[i]
            /\ (v # Null /\ IsBatchedField(v) /\ "velocity" \in DOMAIN b.storage) =>
                  \A i \in 1..b.batchSize :
                     b2.storage["velocity"][i] = IF i <= Len(BatchRows(v)) THEN BatchRows(v)[i]
                                                 ELSE b.storage["velocity"][i]
            /\ (c # Null /\ c.kind = "batched" /\ "contacts" \in DOMAIN b.storage) =>
                  \A i \in 1..b.batchSize :
                     b2.storage["contacts"][i] = IF i <= Len(c.rows) THEN c.rows[i]
                                                 ELSE b.storage["contacts"][i]]_vars

\* batch i of the body holds the pose the wire transform t = [x,y,z,qw,qx,qy,qz] gives
Decoded(b, i, t) ==
    /\ b.positions[i] = <<t[1], t[2], t[3]>>
    /\ b.quaternions[i] = [w |-> t[4], x |-> t[5], y |-> t[6], z |-> t[7]]
    /\ t = TransformScenario =>
          b.positions[i] = <<0, 0, 1>> /\ b.quaternions[i] = IdentityQuaternion

\* the transforms of rows that reach a body of B batches: row i is within the batches
\* and the array, has seven elements, and no null entry comes before it
Reaches(rows, B, i) ==
    /\ i \in 1..Min(B, Len(rows))
    /\ \A k \in 1..i : rows[k] # NullRow
    /\ Len(rows[i]) = 7

\* C19: a seven-element bodyTransform [x,y,z,qw,qx,qy,qz] for batch i, in the model
\* record or in a slice, sets the position of batch i to (x,y,z) and its quaternion
\* to scalar part qw, vector part (qx,qy,qz); [0,0,1,1,0,0,0] gives position (0,0,1)
\* and the identity orientation.
C19_PoseDecoding ==
    /\ []((bodyRun.body # Null /\ bodyRun.earlier = Null /\ bodyRun.slice = Null
             /\ bodyRun.data[1].bodyTransform # Null) =>
            \A i \in 1..bodyRun.body[1].batchSize :
               Reaches(RowsOf(bodyRun.data[1].bodyTransform), bodyRun.body[1].batchSize, i)
                  => Decoded(bodyRun.body[1], i, RowsOf(bodyRun.data[1].bodyTransform)[i]))
    /\ [][(UpdateStateStep /\ bodyRun'.slice[1].bodyTransform # Null) =>
            \A i \in 1..bodyRun.body[1].batchSize :
               Reaches(RowsOf(bodyRun'.slice[1].bodyTransform), bodyRun.body[1].batchSize, i)
                  => Decoded(bodyRun'.body[1], i, RowsOf(bodyRun'.slice[1].bodyTransform)[i])]_vars

\* a body of two batches that held another pose has taken the two transforms of a
\* slice, the second one into batch 1
C19_Witness ==
    /\ bodyRun.slice # Null
    /\ bodyRun.earlier # Null
    /\ bodyRun.slice[1].bodyTransform
          = Batched(<<<<1, 2, 3, 4, 5, 6, 7>>, <<2, 2, 3, 4, 5, 6, 7>>>>)
    /\ bodyRun.body[1].batchSize = 2
    /\ bodyRun.body[1].positions[2] = <<2, 2, 3>>
    /\ bodyRun.body[1].quaternions[2] = [w |-> 4, x |-> 5, y |-> 6, z |-> 7]

\* the contacts entry of batch i in a slice is absent or an empty list
NoContactsFor(bodyState, i) ==
    LET c == bodyState.contacts
    IN \/ c = Null
       \/ c.kind = "flat" /\ (i > 1 \/ c.row = <<>>)
       \/ c.kind = "batched" /\ (i > Len(c.rows) \/ c.rows[i] \in {<<>>, NullRow})

\* C20: after updateState on a body that declares contacts, every batch whose
\* contacts entry is absent from the slice or is an empty list has no active
\* contact point, and no error is raised.
C20_AbsentContactsClear ==
    [][(UpdateStateStep /\ "contacts" \in DOMAIN bodyRun.body[1].storage
          /\ RowsWellFormed(bodyRun'.slice[1])) =>
         /\ bodyRun'.body[1].err = "none"
         /\ \A i \in 1..bodyRun.body[1].batchSize :
               NoContactsFor(bodyRun'.slice[1], i) => bodyRun'.body[1].active[i] = {}]_vars

(***************************************************************************)
(* Properties of model reloads (SpecReload)                                 *)
(***************************************************************************)

\* the step is a "model" payload that initFromModel completes for, arriving while a
\* timeline is loaded
ReloadStep ==
    /\ lastOp'.name = "model"
    /\ lastOp'.err = "none"
    /\ animationController # Null
    /\ animationController[1].states # Null

CaptureStep ==
    /\ lastOp'.name = "tick"
    /\ scene.lastRenderTime # NegInf
    /\ lastOp'.err = "none"
    /\ animationController[1].isPlaying
    /\ animationController[1].states # Null
    /\ animationController[1].isRecording
    /\ animationController[1].capturer # Null

\* C22: on every frame on which a frame is captured for a recording, the capture
\* comes after the render of that frame: the captured frame buffer shows the state
\* the bodies hold at the end of that frame.
C22_CaptureAfterRender ==
    [][CaptureStep =>
          animationController'[1].capturer[1].captured = Some(bodies'[1].state)]_vars

(***************************************************************************)
(* Index validity on a loaded timeline (SpecPlay)                           *)
(***************************************************************************)

\* C23: for every loaded timeline, one with a single snapshot or totalTime = 0
\* included, after any sequence of play, pause, setSpeed, stepForward, stepBackward,
\* goToTime and frames, currentStateIndex is an integer in [0, states.length - 1],
\* and no frame raises an error.
C23_IndexValid ==
    /\ ValidIndex(animationController[1], animationController[1].currentStateIndex)
    /\ lastOp.name = "tick" => lastOp.err = "none"

(***************************************************************************)
(* Properties of malformed model payloads (Spec)                            *)
(***************************************************************************)

\* C24: a "model" payload without terrain makes the load fail with an error and
\* leaves no partial scene: app.bodies holds no body of the failed model (only the
\* previous model's bodies, disposed of), no terrain or batch manager of it is kept,
\* no get_states is sent for it and the accept gate is not opened for it; no states
\* payload is ever delivered in answer to the failed model.
C24_MissingTerrainFails ==
    /\ [][(lastOp'.name = "model" /\ lastOp'.arg = ModelBad.id) =>
            /\ lastOp'.err # "none"
            /\ bodies' = IF bodies = Null THEN Null
                         ELSE Some([bodies[1] EXCEPT !.disposed = TRUE])
            /\ bodies' # Null => bodies'[1].model # ModelBad.id
            /\ terrain' = terrain
            /\ batchManager' = batchManager
            /\ currentModel' = currentModel
            /\ canReceiveStates' = canReceiveStates
            /\ statesListener' = statesListener
            /\ inflight' = inflight]_vars
    /\ [](currentModel # ModelBad.id)
    /\ [](lastOp.name = "states" => lastOp.req # ModelBad.id)
    /\ [](currentModel = 0 => acceptedSinceModel = 0 /\ bodies = Null)

\* a payload without terrain has just failed as a reload of model 1
C24_Witness ==
    /\ lastOp.name = "model"
    /\ lastOp.arg = ModelBad.id
    /\ lastOp.err = "TypeError"
    /\ currentModel = ModelA.id
    /\ bodies # Null
    /\ bodies[1].model = ModelA.id
    /\ bodies[1].disposed

(***************************************************************************)
(* Properties of the terrain constructor (SpecTerrain)                      *)
(***************************************************************************)

\* C25: a terrain whose heightData length or normals length differs from
\* resolutionX * resolutionY is rejected with an error, and no terrain is built
\* from it (stated for a batch manager that gives the terrain a batch count).
C25_TerrainSizeChecked ==
    (terrainRun.result # Null /\ terrainRun.batchSize # Null) =>
       LET terrainData == terrainRun.data[1]
           cells == terrainData.shapeX * terrainData.shapeY
       IN (terrainData.heightData # cells \/ terrainData.normals # cells) =>
             /\ terrainRun.result[1].err # "none"
             /\ terrainRun.result[1].groups = 0

(***************************************************************************)
(* Properties of the scalar plotter's ingestion (SpecScalars)               *)
(***************************************************************************)

\* C26: when the model declares scalars and an accepted states payload has a
\* snapshot that lacks a declared scalar, or lacks its value for a batch index below
\* the batch count, processing the payload fails with an error.
C26_MissingScalarFatal ==
    [][(lastOp'.name = "states" /\ canReceiveStates /\ scalarPlotter # Null) =>
         ((\E i \in DOMAIN animationController'[1].states[1].snaps :
              LET snap == animationController'[1].states[1].snaps[i]
              IN snap.scalars = Null \/ snap.scalars[1] < batchManager[1].simBatches)
            => lastOp'.err = "Error")]_vars

\* a payload whose second snapshot lacks the value of batch 1 has just failed on a
\* model of two batches
C26_Witness ==
    /\ lastOp.name = "states"
    /\ lastOp.err = "Error"
    /\ batchManager[1].simBatches = 2
    /\ Len(animationController[1].states[1].snaps) = 3
    /\ animationController[1].states[1].snaps[1].scalars = Some(2)
    /\ animationController[1].states[1].snaps[2].scalars = Some(1)
    /\ animationController[1].states[1].snaps[3].scalars = Some(2)
    /\ scalarPlotter[1].times = 1

(***************************************************************************)
(* Properties of the recording format (SpecRec)                             *)
(***************************************************************************)

\* C27: setRecordingFormat raises nothing for any format; with a format other than
\* jpg and png the next startRecording (called directly or by the record button)
\* raises an Error and starts no recording: isRecording stays false, no capturer is
\* created, and playback is not started.
C27_UnsupportedFormat ==
    /\ [][lastOp'.name = "setRecordingFormat" =>
            /\ lastOp'.err = "none"
            /\ animationController'[1].recordingFormat = lastOp'.arg]_vars
    /\ [][(/\ lastOp'.name \in {"startRecording", "recordButtonClick"}
           /\ ~animationController[1].isRecording
           /\ animationController[1].recordingFormat \notin {"jpg", "png"}) =>
            /\ lastOp'.err = "Error"
            /\ ~animationController'[1].isRecording
            /\ animationController'[1].capturer = animationController[1].capturer
            /\ animationController'[1].startTime = animationController[1].startTime
            /\ animationController'[1].isPlaying = animationController[1].isPlaying
            /\ animationController'[1].playbackControls[1].recordButton
                 = animationController[1].playbackControls[1].recordButton]_vars

\* startRecording has just failed on a paused controller set to gif
C27_Witness ==
    /\ lastOp.name = "startRecording"
    /\ lastOp.err = "Error"
    /\ animationController[1].recordingFormat = "gif"
    /\ ~animationController[1].isRecording
    /\ ~animationController[1].isPlaying
    /\ animationController[1].capturer = Null

(***************************************************************************)
(* Properties of the batch selection (SpecBatch)                             *)
(***************************************************************************)

\* the call just made named an index outside [0, simBatches) or a cell that is
\* negative, outside the square grid or unpopulated
OutOfRangeCall ==
    LET bm == batchRun.batchManager[1]
        c == batchRun'.call[1]
    IN \/ c.name = "setActiveBatch" /\ (c.a < 0 \/ c.a >= bm.simBatches)
       \/ c.name = "setActiveBatchByRowCol" /\ getBatchIndexFromRowCol(bm, c.a, c.b) = -1

\* C28: setActiveBatch with an index outside [0, simBatches) and setActiveBatchByRowCol
\* with a cell that has no batch raise nothing and leave the active batch, the camera
\* target, the body-state window's selector and the plotter's focused batch as they were.
C28_OutOfRangeNoOp ==
    [][OutOfRangeCall =>
          /\ batchRun'.err = "none"
          /\ batchRun'.batchManager = batchRun.batchManager
          /\ batchRun'.target = batchRun.target
          /\ batchRun'.batchSelector = batchRun.batchSelector
          /\ batchRun'.currentFocusedBatch = batchRun.currentFocusedBatch]_vars

(***************************************************************************)
(* Properties of the timeline bar (SpecClick)                                *)
(***************************************************************************)

\* index i of the controller's snapshots is one whose time is nearest to t
NearestIndex(c, i, t) ==
    LET dist(j) == IF StateAt(c, j).time >= t THEN StateAt(c, j).time - t
                   ELSE t - StateAt(c, j).time
    IN /\ ValidIndex(c, i)
       /\ \A j \in 0..(StatesLength(c) - 1) : dist(i) <= dist(j)

\* C29: after a click on the timeline bar at a position inside it the controller is
\* paused and currentStateIndex is the index nearest to the clicked time, whether it
\* was playing or paused before.
C29_ClickSeeksAndPauses ==
    [][lastOp'.name = "progressBarContainerClick" =>
          /\ ~animationController'[1].isPlaying
          /\ NearestIndex(animationController'[1],
                          animationController'[1].currentStateIndex, lastOp'.arg)]_vars

(***************************************************************************)
(* Properties of the playback clock (SpecPlay)                               *)
(***************************************************************************)

\* a frame of a playing controller on a timeline of positive length whose previous
\* frame set lastUpdateTime
ClockTick ==
    /\ lastOp'.name = "tick"
    /\ animationController # Null
    /\ animationController[1].isPlaying
    /\ animationController[1].states # Null
    /\ animationController[1].lastUpdateTime # Null
    /\ animationController[1].totalTime > 0
    /\ animationController[1].currentTime # NaN

\* C30: on every frame while playing, with d the wall-clock time since the previous
\* frame, currentTime after the frame is (currentTime before + d * playbackSpeed)
\* mod totalTime, also on frames where the index changes.
C30_ContinuousClock ==
    [][ClockTick =>
          animationController'[1].currentTime
              = JsMod(Advanced(animationController[1], now'),
                      animationController[1].totalTime)]_vars

(***************************************************************************)
(* Properties of the states load (SpecLoad)                                  *)
(***************************************************************************)

\* loadAnimation has just run on the freshly constructed controller with a non-empty
\* states array
Loaded ==
    /\ lastOp'.name = "loadAnimation"
    /\ lastOp'.arg > 0
    /\ animationController[1] = AnimationController_new(animationController[1].simulationTimestep)

C32_TimestepPositive ==
    [][(lastOp'.name = "loadAnimation" /\ lastOp'.err = "none") =>
          LET supplied == animationController[1].simulationTimestep
              c == animationController'[1]
              valid == supplied # Null /\ supplied[1] # NaN /\ supplied[1] > 0
              inferred == StatesLength(c) > 1 /\ StateAt(c, 1).time - StateAt(c, 0).time > 0
          IN /\ c.simulationTimestep # Null
             /\ c.simulationTimestep[1] > 0
             /\ c.simulationTimestep =
                  IF valid THEN supplied
                  ELSE IF inferred THEN Some(StateAt(c, 1).time - StateAt(c, 0).time)
                  ELSE Some(DefaultTimestep)]_vars

(***************************************************************************)
(* Properties of the contact points (SpecBody)                               *)
(***************************************************************************)

\* the index list the slice carries for batch i of a body of B batches, as a sequence
\* in a one-element sequence, or Null when the slice has no list for that batch
ContactsFor(bodyState, B, i) ==
    LET c == bodyState.contacts
    IN IF c = Null THEN Null
       ELSE IF c.kind = "flat" THEN (IF i = 1 THEN Some(c.row) ELSE Null)
       ELSE IF i <= Min(B, Len(c.rows)) /\ c.rows[i] # NullRow THEN Some(c.rows[i])
       ELSE Null

\* C33: after a contacts update for a batch with index list L on a body with P contact
\* points, the active contact points of that batch are exactly the indices of L within
\* 0..P-1, whatever was active before; indices outside are ignored without an error,
\* and batches the update does not address keep their active points.
C33_ActiveContactSubset ==
    [][(UpdateStateStep /\ "contacts" \in DOMAIN bodyRun.body[1].storage
          /\ bodyRun'.slice[1].contacts # Null
          /\ RowsWellFormed(bodyRun'.slice[1])) =>
         LET b == bodyRun.body[1]
             b2 == bodyRun'.body[1]
             bodyState == bodyRun'.slice[1]
         IN /\ b2.err = "none"
            /\ \A i \in 1..b.batchSize :
                  LET L == ContactsFor(bodyState, b.batchSize, i)
                  IN IF L = Null
                     THEN bodyState.contacts.kind = "batched" /\ i > Len(bodyState.contacts.rows)
                             => b2.active[i] = b.active[i]
                     ELSE b2.active[i]
                            = {x \in {L[1][k] : k \in DOMAIN L[1]} : 0 <= x /\ x < b.pointCount}]_vars

\* a body of two batches and two contact points, with point 0 active in batch 0 and
\* point 1 in batch 1, has taken the lists [] and [1, 5]
C33_Witness ==
    /\ bodyRun.slice # Null
    /\ bodyRun.earlier # Null
    /\ bodyRun.slice[1].contacts = Batched(<<<<>>, <<1, 5>>, <<0>>>>)
    /\ bodyRun.slice[1].velocity = Null
    /\ bodyRun.body[1].batchSize = 2
    /\ bodyRun.body[1].pointCount = 2
    /\ bodyRun.body[1].active = <<{}, {1}>>
    /\ bodyRun.body[1].err = "none"

(***************************************************************************)
(* Properties of the throttled widgets (SpecThrottle)                        *)
(***************************************************************************)

\* at time t a widget last redrawn at last (or forced) has waited for its delay
WaitedFor(t, last, delay) == last = NegInf \/ t - last[1] >= delay

\* the frame at now' calls animate of the playback bar and the body-state window:
\* the controller is playing and the frame's index differs from the current one
WidgetsCalled ==
    /\ lastOp'.name = "tick"
    /\ animationController[1].isPlaying
    /\ animationController[1].states # Null
    /\ FrameIndex(animationController[1], now') # animationController[1].currentStateIndex

\* C34: animate(now) of a throttled widget (scene, plotter, playback bar, body-state
\* window) redraws exactly when now - lastRenderTime >= the widget's delay and then
\* records now as its render time, so that two animate-driven redraws with no forced
\* redraw between them are at least the delay apart; a throttled call changes
\* nothing of the widget; forceRedraw makes the next animate call redraw.
C34_WidgetThrottling ==
    /\ [][(lastOp'.name = "tick" /\ lastOp'.err = "none") =>
            /\ IF WaitedFor(now', scene.lastRenderTime, SceneDelay)
               THEN scene'.lastRenderTime = Some(now') /\ scene'.frame = Some(bodies'[1].state)
               ELSE scene' = scene
            /\ IF WaitedFor(now', scalarPlotter[1].lastRenderTime, ScalarPlotterDelay)
               THEN scalarPlotter'[1].lastRenderTime = Some(now')
               ELSE scalarPlotter'[1].lastRenderTime = scalarPlotter[1].lastRenderTime]_vars
    /\ [][WidgetsCalled =>
            LET pc == animationController[1].playbackControls[1]
                pc2 == animationController'[1].playbackControls[1]
            IN /\ IF WaitedFor(now', pc.lastRenderTime, PlaybackControlsDelay)
                  THEN /\ pc2.lastRenderTime = Some(now')
                       /\ pc2.shownTime = animationController'[1].currentTime
                  ELSE pc2 = pc
               /\ IF WaitedFor(now', bodyStateWindow[1].lastRenderTime, BodyStateWindowDelay)
                  THEN /\ bodyStateWindow'[1].lastRenderTime = Some(now')
                       /\ bodyStateWindow'[1].shown = Some(bodies'[1].state)
                  ELSE bodyStateWindow' = bodyStateWindow]_vars
    /\ [][(lastOp'.name = "tick" /\ ~WidgetsCalled) =>
            /\ animationController'[1].playbackControls = animationController[1].playbackControls
            /\ bodyStateWindow' = bodyStateWindow]_vars
    /\ [][(lastOp'.name \in {"stepForward", "goToTime"} /\ ~animationController[1].isPlaying) =>
            /\ animationController'[1].playbackControls[1].lastRenderTime = NegInf
            /\ bodyStateWindow'[1].lastRenderTime = NegInf]_vars

\* a frame has rendered the scene and moved the index while the playback bar, redrawn
\* by an earlier frame less than its delay ago, still shows the earlier time
C34_Witness ==
    /\ lastOp.name = "tick"
    /\ scene.lastRenderTime = Some(now)
    /\ animationController[1].playbackControls[1].lastRenderTime # NegInf
    /\ animationController[1].playbackControls[1].lastRenderTime[1] < now
    /\ animationController[1].playbackControls[1].shownTime # animationController[1].currentTime
    /\ bodyStateWindow[1].lastRenderTime = Some(now)

(***************************************************************************)
(* Properties of the index and the clock (SpecSync)                          *)
(***************************************************************************)

\* C35: on every loaded timeline with non-decreasing snapshot times, in every state
\* reached by play, pause, steps, in-range seeks, startRecording and frames,
\* currentStateIndex is getStateIndexForTime(currentTime).
C35_IndexTimeConsistent ==
    (animationController # Null /\ animationController[1].states # Null) =>
        animationController[1].currentStateIndex
            = getStateIndexForTime(animationController[1], animationController[1].currentTime)

(***************************************************************************)
(* Properties of stepping (SpecPlay)                                         *)
(***************************************************************************)

\* stepForward or stepBackward has just run on a paused controller with a loaded
\* timeline and a valid index
PausedStep ==
    /\ lastOp'.name \in {"stepForward", "stepBackward"}
    /\ ~animationController[1].isPlaying
    /\ ValidIndex(animationController[1], animationController[1].currentStateIndex)

\* the step moved the index by one with wrapping, set the clock to the new snapshot's
\* time, pushed the snapshot to the entities and redrew the widgets
StepApplied ==
    LET c == animationController[1]
        c2 == animationController'[1]
        n == StatesLength(c)
    IN /\ lastOp'.err = "none"
       /\ c2.currentStateIndex = IF lastOp'.name = "stepForward"
                                 THEN (c.currentStateIndex + 1) % n
                                 ELSE (c.currentStateIndex - 1 + n) % n
       /\ c2.currentTime = StateAt(c2, c2.currentStateIndex).time
       /\ ShowsSnapshot(c2, bodies'[1], c2.currentStateIndex)
       /\ Redrawn(c2, bodyStateWindow'[1], bodies'[1])

\* the controller after the opposite step is taken from the state the step produced
SteppedBack ==
    IF lastOp'.name = "stepForward" THEN AC(stepBackward(World')) ELSE AC(stepForward(World'))

\* C36 as stated: a step while Paused moves the index by one with wrapping, sets
\* currentTime to the new snapshot's time, pushes it to the entities and redraws the
\* widgets; the opposite step then restores the original index and currentTime.
C36_StepRoundTrip ==
    [][PausedStep =>
          /\ StepApplied
          /\ SteppedBack.currentStateIndex = animationController[1].currentStateIndex
          /\ SteppedBack.currentTime = animationController[1].currentTime]_vars

\* C36: a step while Paused moves the index by one with wrapping, sets currentTime to
\* the new snapshot's time, pushes it to the entities and redraws the widgets; the
\* opposite step then restores the original index and sets currentTime to the time
\* of the original snapshot, which is the original currentTime when the clock stood
\* on that snapshot.
C36_StepRoundTripToSnapshot ==
    [][PausedStep =>
          LET c == animationController[1]
          IN /\ StepApplied
             /\ SteppedBack.currentStateIndex = c.currentStateIndex
             /\ SteppedBack.currentTime = StateAt(c, c.currentStateIndex).time
             /\ c.currentTime = StateAt(c, c.currentStateIndex).time
                   => SteppedBack.currentTime = c.currentTime]_vars

\* stepBackward from the first of three snapshots has wrapped to the last one
C36_Witness ==
    /\ lastOp.name = "stepBackward"
    /\ lastOp.err = "none"
    /\ ~animationController[1].isPlaying
    /\ StatesLength(animationController[1]) = 3
    /\ animationController[1].currentStateIndex = 2
    /\ animationController[1].states[1].id = PayloadA.id
    /\ animationController[1].currentTime = 8
    /\ animationController[1].playbackControls[1].shownTime = 8

\* C37: when startRecording raises because the recording format is unsupported,
\* currentStateIndex, currentTime, isPlaying, isRecording and the snapshot the
\* entities show are what they were before the call.
C37_FailedStartUnchanged ==
    [][(lastOp'.name = "startRecording" /\ lastOp'.err = "Error") =>
          /\ animationController'[1].currentStateIndex = animationController[1].currentStateIndex
          /\ animationController'[1].currentTime = animationController[1].currentTime
          /\ animationController'[1].isPlaying = animationController[1].isPlaying
          /\ animationController'[1].isRecording = animationController[1].isRecording
          /\ bodies'[1].state = bodies[1].state]_vars

(***************************************************************************)
(* Properties of the playback bar's events (SpecUi)                          *)
(***************************************************************************)

\* C38: after any sequence of events of the playback bar (play, step and record
\* buttons, timeline clicks with and without Alt, the space and r keys) and frames,
\* the play button reads Pause exactly when the controller is playing and Play
\* exactly when it is paused.
C38_PlayLabelConsistent ==
    (animationController # Null /\ animationController[1].playbackControls # Null) =>
        /\ animationController[1].playbackControls[1].playButton
              = (IF animationController[1].isPlaying THEN "Pause" ELSE "Play")

(***************************************************************************)
(* The playback bar while paused (SpecPlay)                                  *)
(***************************************************************************)

\* C39: whenever the controller is paused, the time and the progress shown by the
\* playback bar are those of the controller's current time: an update the bar's
\* throttle skipped, or a frame that did not change the index, is never left
\* undisplayed once playback is paused.
C39_PausedBarCurrent ==
    (/\ animationController # Null
     /\ animationController[1].states # Null
     /\ animationController[1].playbackControls # Null
     /\ ~animationController[1].isPlaying) =>
        /\ animationController[1].playbackControls[1].shownTime
              = animationController[1].currentTime
        /\ animationController[1].playbackControls[1].shownTotal
              = animationController[1].totalTime

(***************************************************************************)
(* The scalar plotter across model reloads (Spec)                            *)
(***************************************************************************)

\* C40: after any sequence of model payloads, with and without scalar names, and
\* states payloads the application's scalar plotter is either absent or a live
\* plotter built for the current model, and an accepted states payload whose
\* animation loaded raises no error for want of a plotter.
C40_PlotterOfCurrentModel ==
    /\ scalarPlotter # Null =>
          /\ scalarPlotter[1].model = currentModel
          /\ ~scalarPlotter[1].disposed
    /\ (lastOp.name = "states" /\ animationController # Null
           /\ animationController[1].states # Null) => lastOp.err # "TypeError"

====
